---------------------------- MODULE Spec2Model ----------------------------
(***************************************************************************)
(* A model of the plainjob queue engine (src/src/queue.ts): the jobs and   *)
(* scheduled-jobs tables of the SQLite store, the prepared statements that *)
(* read and write them, and the queue methods that several callers         *)
(* (workers in one process or in several processes sharing the database    *)
(* file) issue against them.  A queue method that is one SQLite statement  *)
(* or one transaction is one atomic action of the model; schedule, which   *)
(* runs two statements outside a transaction, is two actions, and addMany  *)
(* is also modelled statement by statement inside its transaction.         *)
(***************************************************************************)
EXTENDS Integers, Sequences, FiniteSets, TLC

(***************************************************************************)
(* Bounds of the model.                                                    *)
(***************************************************************************)
MaxJobs == 2
MaxTime == 2
MaxBatch == 2

(***************************************************************************)
(* Program constants.                                                      *)
(***************************************************************************)
Pending == 0
Processing == 1
Done == 2
Failed == 3

\* the configured lease and retention windows (scaled to the model's clock)
jobProcessingTimeout == 1
removeDoneJobsOlderThan == 1
removeFailedJobsOlderThan == 1

(***************************************************************************)
(* Input domains.                                                          *)
(***************************************************************************)
Callers == {"w1", "w2"}
Types == {"t", "u"}
Payloads == {"p"}
Errors == {"boom"}
Timeouts == {1, 2}
Retentions == {1}

\* SQL NULL in the failed_at and error columns, and "no row" / undefined
NullTime == -1
NullError == "NULL"
None == 0

\* a process that is not inside a schedule call
NotScheduling == [type |-> "", cron |-> "", id |-> None]

\* a worker that is not inside a scheduler cycle
NotDriving == [pc |-> "poll", id |-> None, type |-> "", cron |-> "",
               due |-> 0]

\* no lifecycle callback has been invoked
NoCallback == [name |-> "", id |-> None, error |-> ""]

\* no write transaction is open
NoTx == [open |-> FALSE, type |-> "", dataList |-> << >>, ids |-> << >>,
         js |-> << >>, createdAt |-> 0]

VARIABLES
    jobs,      \* the plainjob_jobs table: id -> row
    nextId,    \* the AUTOINCREMENT sequence of plainjob_jobs
    now,       \* Date.now()
    held,      \* per caller: the id of the job its last claim returned
    ret,       \* the last queue call: its name, argument, return value and
               \* the counts it handed to the maintenance callbacks
    leased,    \* observer: ids returned by claims so far
    claimedAt, \* observer: per caller, the instant of its last claim
    stale,     \* observer: ids a claim returned without transitioning them
    scheduledJobs,   \* the plainjob_scheduled_jobs table: id -> row
    nextScheduledId, \* the AUTOINCREMENT sequence of plainjob_scheduled_jobs
    found,     \* per process: the schedule call between its SELECT and its
               \* write, with the row the SELECT found
    leasedScheduled, \* observer: scheduled ids returned by a claim and not
               \* marked idle since
    tx,        \* the open write transaction of addMany: its arguments,
               \* the ids returned so far and its uncommitted table
    maintenanceTimeout, \* TRUE while the setInterval timer is armed
    db,        \* the connection: "open" or "closed"
    notBefore, \* observer: per job added with a delay, the instant
               \* add's caller asked the job to wait for
    cycle,     \* per worker: its position in the scheduler cycle, with
               \* the definition it claimed
    fired,     \* observer: <<definition, due instant, job>> for every job
               \* a scheduler cycle added
    callback,  \* the last lifecycle callback a worker invoked
    listed     \* the list the last getScheduledJobs returned

observers == <<leased, claimedAt, stale>>

\* the scheduled-jobs table and its callers
scheduler == <<scheduledJobs, nextScheduledId, found, leasedScheduled>>

\* what the methods on the jobs table never touch
engine == <<maintenanceTimeout, db, notBefore, cycle, fired,
          callback, listed>>

rest == <<scheduledJobs, nextScheduledId, found, leasedScheduled, tx,
          maintenanceTimeout, db, notBefore, cycle, fired,
          callback, listed>>

vars == <<jobs, nextId, now, held, ret, leased, claimedAt, stale,
          scheduledJobs, nextScheduledId, found, leasedScheduled, tx,
          maintenanceTimeout, db, notBefore, cycle, fired,
          callback, listed>>

JobStatus == {Pending, Processing, Done, Failed}

\* the default serializer: JSON.stringify of the payload
serializer(data) == <<"json", data>>

NoCounts == [requeued |-> 0, done |-> 0, failed |-> 0]

Call(op, arg, id) == [op |-> op, arg |-> arg, id |-> id, n |-> NoCounts]

Maint(op, arg, n) == [op |-> op, arg |-> arg, id |-> None, n |-> n]

(***************************************************************************)
(* Prepared statements, as functions of the table they run against.        *)
(***************************************************************************)

\* ORDER BY created_at LIMIT 1 over the rows S of table js; the scan runs
\* over idx_jobs_status_type_created_at, whose entries of equal created_at
\* are ordered by rowid
FirstByCreatedAtLastId(js, S) ==
    CHOOSE i \in S : \A j \in S :
        \/ js[i].createdAt < js[j].createdAt
        \/ (js[i].createdAt = js[j].createdAt /\ i >= j)

FirstByCreatedAt(js, S) ==
    CHOOSE i \in S : \A j \in S :
        \/ js[i].createdAt < js[j].createdAt
        \/ (js[i].createdAt = js[j].createdAt /\ i <= j)

insertJobUnstampedStmt(js, id, type, data, createdAt) ==
    js @@ (id :> [type |-> type, data |-> data, status |-> Pending,
                  failedAt |-> NullTime, error |-> NullError,
                  createdAt |-> 0])

insertJobStmt(js, id, type, data, createdAt) ==
    js @@ (id :> [type |-> type, data |-> data, status |-> Pending,
                  failedAt |-> NullTime, error |-> NullError,
                  createdAt |-> createdAt])

\* the subquery of getAndMarkJobAsProcessingStmt: rows it selects (0 or 1)
PendingOrFailedOfType(js, type) ==
    {i \in DOMAIN js : js[i].status \in {Pending, Failed} /\ js[i].type = type}

PendingOfType(js, type) ==
    {i \in DOMAIN js : js[i].status = Pending /\ js[i].type = type}

SelectPendingJobNewest(js, type) ==
    IF PendingOfType(js, type) = {} THEN {}
    ELSE {CHOOSE i \in PendingOfType(js, type) :
            \A j \in PendingOfType(js, type) :
                \/ js[i].createdAt > js[j].createdAt
                \/ (js[i].createdAt = js[j].createdAt /\ i >= j)}

SelectPendingJob(js, type) ==
    IF PendingOfType(js, type) = {} THEN {}
    ELSE {FirstByCreatedAt(js, PendingOfType(js, type))}

getAndMarkJobAsProcessingAnyTypeStmt(js, type) ==
    LET S == {i \in DOMAIN js : js[i].status = Pending}
    IN [i \in DOMAIN js |->
          IF S # {} /\ i = FirstByCreatedAt(js, S)
          THEN [js[i] EXCEPT !.status = Processing]
          ELSE js[i]]

getAndMarkJobAsProcessingStmt(js, type) ==
    [i \in DOMAIN js |->
        IF i \in SelectPendingJob(js, type)
        THEN [js[i] EXCEPT !.status = Processing]
        ELSE js[i]]

getUpdatedJobPendingStmt(js, type) ==
    LET S == {i \in DOMAIN js : js[i].status = Pending /\ js[i].type = type}
    IN IF S = {} THEN None ELSE FirstByCreatedAt(js, S)

getUpdatedJobAnyStatusStmt(js, type) ==
    LET S == {i \in DOMAIN js : js[i].type = type}
    IN IF S = {} THEN None ELSE FirstByCreatedAt(js, S)

\* returns the id of the selected row, or None
getUpdatedJobStmt(js, type) ==
    LET S == {i \in DOMAIN js : js[i].status = Processing /\ js[i].type = type}
    IN IF S = {} THEN None ELSE FirstByCreatedAt(js, S)

upsertJobStatusStmt(js, status, id) ==
    IF id \in DOMAIN js
    THEN [js EXCEPT ![id].status = status]
    ELSE js @@ (id :> [type |-> "", data |-> "", status |-> status,
                       failedAt |-> NullTime, error |-> NullError,
                       createdAt |-> 0])

updateJobStatusStmt(js, status, id) ==
    [i \in DOMAIN js |->
        IF i = id THEN [js[i] EXCEPT !.status = status] ELSE js[i]]

failJobKeepErrorStmt(js, failedAt, error, id) ==
    [i \in DOMAIN js |->
        IF i = id
        THEN [js[i] EXCEPT !.status = Failed, !.failedAt = failedAt]
        ELSE js[i]]

failJobStmt(js, failedAt, error, id) ==
    [i \in DOMAIN js |->
        IF i = id
        THEN [js[i] EXCEPT !.status = Failed, !.failedAt = failedAt,
                           !.error = error]
        ELSE js[i]]

TimedOutInclusive(js, threshold) ==
    {i \in DOMAIN js : js[i].status = Processing /\ js[i].createdAt <= threshold}

TimedOut(js, threshold) ==
    {i \in DOMAIN js : js[i].status = Processing /\ js[i].createdAt < threshold}

requeueAnyStatusStmt(js, threshold) ==
    [i \in DOMAIN js |->
        IF js[i].createdAt < threshold
        THEN [js[i] EXCEPT !.status = Pending]
        ELSE js[i]]

requeueRestampedStmt(js, threshold) ==
    [i \in DOMAIN js |->
        IF i \in TimedOut(js, threshold)
        THEN [js[i] EXCEPT !.status = Pending, !.createdAt = threshold]
        ELSE js[i]]

requeueTimedOutJobsStmt(js, threshold) ==
    [i \in DOMAIN js |->
        IF i \in TimedOut(js, threshold)
        THEN [js[i] EXCEPT !.status = Pending]
        ELSE js[i]]

DoneBeforeInclusive(js, threshold) ==
    {i \in DOMAIN js : js[i].status = Done /\ js[i].createdAt <= threshold}

DoneBefore(js, threshold) ==
    {i \in DOMAIN js : js[i].status = Done /\ js[i].createdAt < threshold}

removeOldJobsStmt(js, threshold) ==
    [i \in {j \in DOMAIN js : js[j].createdAt >= threshold} |-> js[i]]

removeDoneJobsStmt(js, threshold) ==
    [i \in DOMAIN js \ DoneBefore(js, threshold) |-> js[i]]

\* a comparison with a NULL failed_at is not true
FailedBeforeCreated(js, threshold) ==
    {i \in DOMAIN js : js[i].status = Failed /\ js[i].createdAt < threshold}

FailedBefore(js, threshold) ==
    {i \in DOMAIN js : /\ js[i].status = Failed
                       /\ js[i].failedAt # NullTime
                       /\ js[i].failedAt < threshold}

removeFailedJobsStmt(js, threshold) ==
    [i \in DOMAIN js \ FailedBefore(js, threshold) |-> js[i]]

(***************************************************************************)
(* The initial state: defineQueue on an empty database.                    *)
(***************************************************************************)
Init ==
    /\ jobs = << >>
    /\ nextId = 1
    /\ now = 0
    /\ held = [w \in Callers |-> None]
    /\ ret = Call("defineQueue", None, None)
    /\ leased = {}
    /\ claimedAt = [w \in Callers |-> 0]
    /\ stale = {}
    /\ scheduledJobs = << >>
    /\ nextScheduledId = 1
    /\ found = [w \in Callers |-> NotScheduling]
    /\ leasedScheduled = {}
    /\ tx = NoTx
    /\ maintenanceTimeout = TRUE
    /\ db = "open"
    /\ notBefore = << >>
    /\ cycle = [w \in Callers |-> NotDriving]
    /\ fired = {}
    /\ callback = NoCallback
    /\ listed = << >>

(***************************************************************************)
(* Queue methods.                                                          *)
(***************************************************************************)
addMaxRowid(type, data) ==
    LET id == IF DOMAIN jobs = {} THEN 1
              ELSE 1 + CHOOSE i \in DOMAIN jobs :
                           \A j \in DOMAIN jobs : j <= i
    IN /\ jobs' = insertJobStmt(jobs, id, type, serializer(data), now)
       /\ nextId' = nextId + 1
       /\ ret' = Call("add", type, id)
       /\ UNCHANGED <<now, held>>

add(type, data) ==
    /\ jobs' = insertJobStmt(jobs, nextId, type, serializer(data), now)
    /\ nextId' = nextId + 1
    /\ ret' = Call("add", type, nextId)
    /\ UNCHANGED <<now, held>>

RECURSIVE insertManyJobs(_, _, _, _, _)
insertManyJobs(js, id, type, dataList, createdAt) ==
    IF dataList = << >> THEN js
    ELSE insertManyJobs(
             insertJobStmt(js, id, type, serializer(Head(dataList)), createdAt),
             id + 1, type, Tail(dataList), createdAt)

addMany(type, dataList) ==
    /\ jobs' = insertManyJobs(jobs, nextId, type, dataList, now)
    /\ nextId' = nextId + Len(dataList)
    /\ ret' = Call("addMany", type, nextId' - 1)
    /\ UNCHANGED <<now, held>>

getAndMarkJobAsProcessing(w, type) ==
    LET updated == getAndMarkJobAsProcessingStmt(jobs, type)
        row == getUpdatedJobStmt(updated, type)
    IN /\ held[w] = None
       /\ jobs' = updated
       /\ held' = [held EXCEPT ![w] = row]
       /\ ret' = Call("getAndMarkJobAsProcessing", type, row)
       /\ UNCHANGED <<nextId, now>>

markJobAsDoneIfProcessing(w) ==
    /\ held[w] # None
    /\ jobs' = IF held[w] \in DOMAIN jobs /\ jobs[held[w]].status = Processing
               THEN updateJobStatusStmt(jobs, Done, held[w])
               ELSE jobs
    /\ held' = [held EXCEPT ![w] = None]
    /\ ret' = Call("markJobAsDone", None, held[w])
    /\ UNCHANGED <<nextId, now>>

markJobAsDone(w) ==
    /\ held[w] # None
    /\ jobs' = updateJobStatusStmt(jobs, Done, held[w])
    /\ held' = [held EXCEPT ![w] = None]
    /\ ret' = Call("markJobAsDone", None, held[w])
    /\ UNCHANGED <<nextId, now>>

markJobAsFailedStatusOnly(w, error) ==
    /\ held[w] # None
    /\ jobs' = updateJobStatusStmt(jobs, Failed, held[w])
    /\ held' = [held EXCEPT ![w] = None]
    /\ ret' = Call("markJobAsFailed", None, held[w])
    /\ UNCHANGED <<nextId, now>>

markJobAsFailed(w, error) ==
    /\ held[w] # None
    /\ jobs' = failJobStmt(jobs, now, error, held[w])
    /\ held' = [held EXCEPT ![w] = None]
    /\ ret' = Call("markJobAsFailed", None, held[w])
    /\ UNCHANGED <<nextId, now>>

requeueTimedOutJobsNoWindow(timeout) ==
    /\ jobs' = requeueTimedOutJobsStmt(jobs, now)
    /\ ret' = Maint("requeueTimedOutJobs", timeout,
                    [NoCounts EXCEPT !.requeued =
                        Cardinality(TimedOut(jobs, now))])
    /\ UNCHANGED <<nextId, now, held>>

requeueTimedOutJobs(timeout) ==
    /\ jobs' = requeueTimedOutJobsStmt(jobs, now - timeout)
    /\ ret' = Maint("requeueTimedOutJobs", timeout,
                    [NoCounts EXCEPT !.requeued =
                        Cardinality(TimedOut(jobs, now - timeout))])
    /\ UNCHANGED <<nextId, now, held>>

removeDoneJobs(olderThan) ==
    /\ jobs' = removeDoneJobsStmt(jobs, now - olderThan)
    /\ ret' = Maint("removeDoneJobs", olderThan,
                    [NoCounts EXCEPT !.done =
                        Cardinality(DoneBefore(jobs, now - olderThan))])
    /\ UNCHANGED <<nextId, now, held>>

removeFailedJobs(olderThan) ==
    /\ jobs' = removeFailedJobsStmt(jobs, now - olderThan)
    /\ ret' = Maint("removeFailedJobs", olderThan,
                    [NoCounts EXCEPT !.failed =
                        Cardinality(FailedBefore(jobs, now - olderThan))])
    /\ UNCHANGED <<nextId, now, held>>

\* the setInterval callback of initializeMaintenance: the three steps of
\* one tick run back to back in one turn of the event loop
Maintenance ==
    LET t1 == now - jobProcessingTimeout
        j1 == requeueTimedOutJobsStmt(jobs, t1)
        t2 == now - removeDoneJobsOlderThan
        j2 == removeDoneJobsStmt(j1, t2)
        t3 == now - removeFailedJobsOlderThan
        j3 == removeFailedJobsStmt(j2, t3)
    IN /\ jobs' = j3
          /\ ret' = Maint("maintenance", jobProcessingTimeout,
                       [requeued |-> Cardinality(TimedOut(jobs, t1)),
                        done |-> Cardinality(DoneBefore(j1, t2)),
                        failed |-> Cardinality(FailedBefore(j2, t3))])
       /\ UNCHANGED <<nextId, now, held>>

(***************************************************************************)
(* The environment: the clock advances, a caller dies holding its job.     *)
(***************************************************************************)
Tick ==
    /\ now < MaxTime
    /\ now' = now + 1
    /\ UNCHANGED <<jobs, nextId, held, ret>>

Crash(w) ==
    /\ held[w] # None
    /\ held' = [held EXCEPT ![w] = None]
    /\ UNCHANGED <<jobs, nextId, now, ret>>

BatchLists == UNION {[1..n -> Payloads] : n \in 0..MaxBatch}

(***************************************************************************)
(* The queue with its maintenance cycle, used by several callers.          *)
(***************************************************************************)
Produce(types, cap) ==
    \/ \E type \in types, data \in Payloads :
           nextId <= cap /\ add(type, data)
    \/ \E type \in types, dataList \in BatchLists :
           nextId + Len(dataList) - 1 <= cap /\ addMany(type, dataList)

\* workers of the given types poll the queue
Claim(types) ==
    \E w \in Callers, type \in types : getAndMarkJobAsProcessing(w, type)

Report ==
    \/ \E w \in Callers : markJobAsDone(w)
    \/ \E w \in Callers, error \in Errors : markJobAsFailed(w, error)

Requeue == \E timeout \in Timeouts : requeueTimedOutJobs(timeout)

Sweep ==
    \/ \E olderThan \in Retentions : removeDoneJobs(olderThan)
    \/ \E olderThan \in Retentions : removeFailedJobs(olderThan)

Maintain ==
    \/ Requeue
    \/ Sweep
    \/ Maintenance

Environment ==
    \/ Tick
    \/ \E w \in Callers : Crash(w)

Next ==
    \/ Produce(Types, MaxJobs) /\ UNCHANGED <<observers, rest>>
    \/ Claim(Types) /\ UNCHANGED <<observers, rest>>
    \/ Report /\ UNCHANGED <<observers, rest>>
    \/ Maintain /\ UNCHANGED <<observers, rest>>
    \/ Environment /\ UNCHANGED <<observers, rest>>

Spec == Init /\ [][Next]_vars

(***************************************************************************)
(* The same queue observed through `leased`: every id a claim returns is   *)
(* recorded.  No requeueTimedOutJobs runs in this specification.           *)
(***************************************************************************)
ClaimLeased ==
    /\ Claim(Types)
    /\ leased' = IF ret'.id = None THEN leased ELSE leased \cup {ret'.id}
    /\ UNCHANGED <<claimedAt, stale>>

NextClaims ==
    \/ Produce(Types, MaxJobs) /\ UNCHANGED <<observers, rest>>
    \/ ClaimLeased /\ UNCHANGED rest
    \/ Report /\ UNCHANGED <<observers, rest>>
    \/ Environment /\ UNCHANGED <<observers, rest>>

SpecClaims == Init /\ [][NextClaims]_vars

(***************************************************************************)
(* Producers and claimers only: no job is completed, failed or requeued.   *)
(***************************************************************************)
FifoJobs == 3

NextFifo ==
    \/ Produce(Types, FifoJobs) /\ UNCHANGED <<observers, rest>>
    \/ ClaimLeased /\ UNCHANGED rest
    \/ Environment /\ UNCHANGED <<observers, rest>>

SpecFifo == Init /\ [][NextFifo]_vars

(***************************************************************************)
(* The full queue observed through `stale`: the ids that a claim returned  *)
(* although the job was not Pending when the claim ran.  Producers and     *)
(* workers of one type.                                                    *)
(***************************************************************************)
WorkerTypes == {"t"}

StaleAfterClaim ==
    IF ret'.id # None /\ jobs[ret'.id].status # Pending
    THEN stale \cup {ret'.id}
    ELSE stale

ClaimStale ==
    /\ Claim(WorkerTypes)
    /\ stale' = StaleAfterClaim
    /\ UNCHANGED <<leased, claimedAt>>

NextStale ==
    \/ Produce(WorkerTypes, MaxJobs) /\ UNCHANGED <<observers, rest>>
    \/ ClaimStale /\ UNCHANGED rest
    \/ Report /\ UNCHANGED <<observers, rest>>
    \/ Maintain /\ UNCHANGED <<observers, rest>>
    \/ Environment /\ UNCHANGED <<observers, rest>>

SpecStale == Init /\ [][NextStale]_vars

(***************************************************************************)
(* The queue of one type with its requeue and maintenance tick, observed   *)
(* through `claimedAt`: the instant at which each caller claimed the job   *)
(* it holds, NullTime when the claim returned a job that was not Pending   *)
(* when it ran.                                                            *)
(***************************************************************************)
ClaimTimed ==
    /\ \E w \in Callers, type \in WorkerTypes :
          /\ getAndMarkJobAsProcessing(w, type)
          /\ claimedAt' = [claimedAt EXCEPT
                             ![w] = IF held'[w] = None THEN 0
                                    ELSE IF jobs[held'[w]].status # Pending
                                         THEN NullTime ELSE now]
    /\ UNCHANGED <<leased, stale>>

\* a caller that holds no job has no claim instant
Released ==
    /\ claimedAt' = [w \in Callers |->
                       IF held'[w] = None THEN 0 ELSE claimedAt[w]]
    /\ UNCHANGED <<leased, stale>>

NextLease ==
    \/ Produce(WorkerTypes, MaxJobs) /\ UNCHANGED <<observers, rest>>
    \/ ClaimTimed /\ UNCHANGED rest
    \/ Report /\ Released /\ UNCHANGED rest
    \/ Requeue /\ UNCHANGED <<observers, rest>>
    \/ Maintenance /\ UNCHANGED <<observers, rest>>
    \/ Environment /\ Released /\ UNCHANGED rest

SpecLease == Init /\ [][NextLease]_vars

(***************************************************************************)
(* The queue of one type with its maintenance cycle, unobserved.           *)
(***************************************************************************)
NextQueue ==
    \/ Produce(WorkerTypes, MaxJobs) /\ UNCHANGED <<observers, rest>>
    \/ Claim(WorkerTypes) /\ UNCHANGED <<observers, rest>>
    \/ Report /\ UNCHANGED <<observers, rest>>
    \/ Maintain /\ UNCHANGED <<observers, rest>>
    \/ Environment /\ UNCHANGED <<observers, rest>>

SpecQueue == Init /\ [][NextQueue]_vars

(***************************************************************************)
(* Scheduled jobs: the plainjob_scheduled_jobs table, its statements and   *)
(* the queue methods on it.  schedule runs its SELECT and its write as two *)
(* statements outside a transaction, so the statements of two processes    *)
(* interleave; getAndMarkScheduledJobAsProcessing is one immediate         *)
(* transaction.                                                            *)
(***************************************************************************)
ScheduledIdle == 0
ScheduledProcessing == 1

Crons == {"* * * * *", "*/30 * * * *", "invalid cron expression"}

\* cronParser.parseExpression(cron) returns for these and throws otherwise
ValidCrons == {"* * * * *", "*/30 * * * *"}

parseExpressionLenient(cron) == TRUE

parseExpression(cron) == cron \in ValidCrons

\* the instants a scheduled job can be told to run next
NextRuns == 0..MaxTime

\* returns the id of the row of the type, or None (type is UNIQUE)
getScheduledJobByTypeStmt(sj, type) ==
    LET S == {i \in DOMAIN sj : sj[i].type = type}
    IN IF S = {} THEN None ELSE CHOOSE i \in S : TRUE

\* the UNIQUE constraint on type rejects the insert
NoUniqueViolation(sj, type) == FALSE

UniqueViolation(sj, type) == \E i \in DOMAIN sj : sj[i].type = type

insertScheduledJobProcessingStmt(sj, id, type, cronExpression, nextRun, createdAt) ==
    sj @@ (id :> [type |-> type, status |-> ScheduledProcessing,
                  cronExpression |-> cronExpression, nextRun |-> nextRun,
                  createdAt |-> createdAt])

insertScheduledJobStmt(sj, id, type, cronExpression, nextRun, createdAt) ==
    sj @@ (id :> [type |-> type, status |-> ScheduledIdle,
                  cronExpression |-> cronExpression, nextRun |-> nextRun,
                  createdAt |-> createdAt])

updateScheduledJobResetStmt(sj, cronExpression, id) ==
    [i \in DOMAIN sj |->
        IF i = id
        THEN [sj[i] EXCEPT !.cronExpression = cronExpression,
                           !.status = ScheduledIdle,
                           !.nextRun = 0]
        ELSE sj[i]]

updateScheduledJobCronExpressionStmt(sj, cronExpression, id) ==
    [i \in DOMAIN sj |->
        IF i = id THEN [sj[i] EXCEPT !.cronExpression = cronExpression]
        ELSE sj[i]]

\* the rows that ORDER BY next_run LIMIT 1 may return: the order of rows of
\* equal next_run is not specified
DueAnyStatus(sj, t) == {i \in DOMAIN sj : sj[i].nextRun <= t}

DueOrTimedOut(sj, t) ==
    {i \in DOMAIN sj :
        \/ sj[i].status = ScheduledIdle /\ sj[i].nextRun <= t
        \/ /\ sj[i].status = ScheduledProcessing
           /\ sj[i].createdAt < t - jobProcessingTimeout}

Due(sj, t) ==
    {i \in DOMAIN sj : sj[i].status = ScheduledIdle /\ sj[i].nextRun <= t}

getNextScheduledJobStmtLatest(sj, t) ==
    {i \in Due(sj, t) : \A j \in Due(sj, t) : sj[i].nextRun >= sj[j].nextRun}

getNextScheduledJobStmt(sj, t) ==
    {i \in Due(sj, t) : \A j \in Due(sj, t) : sj[i].nextRun <= sj[j].nextRun}

updateScheduledJobStatusKeepNextRunStmt(sj, status, nextRun, id) ==
    [i \in DOMAIN sj |->
        IF i = id THEN [sj[i] EXCEPT !.status = status] ELSE sj[i]]

updateScheduledJobStatusStmt(sj, status, nextRun, id) ==
    [i \in DOMAIN sj |->
        IF i = id THEN [sj[i] EXCEPT !.status = status, !.nextRun = nextRun]
        ELSE sj[i]]

\* schedule with a cron expression that does not parse throws before any
\* statement runs
scheduleInvalid(p, type, cron) ==
    /\ found[p] = NotScheduling
    /\ ~parseExpression(cron)
    /\ ret' = Call("throw", "invalid cron expression provided", None)
    /\ UNCHANGED <<scheduledJobs, nextScheduledId, found, now>>

\* schedule: the cron expression parses, getScheduledJobByTypeStmt runs
scheduleSelect(p, type, cron) ==
    /\ found[p] = NotScheduling
    /\ parseExpression(cron)
    /\ found' = [found EXCEPT ![p] =
                    [type |-> type, cron |-> cron,
                     id |-> getScheduledJobByTypeStmt(scheduledJobs, type)]]
    /\ UNCHANGED <<scheduledJobs, nextScheduledId, now, ret>>

\* schedule: the write that follows the SELECT, an UPDATE of the row found
\* or an INSERT, which the UNIQUE constraint may reject
scheduleWrite(p) ==
    /\ found[p] # NotScheduling
    /\ found' = [found EXCEPT ![p] = NotScheduling]
    /\ IF found[p].id # None
       THEN /\ scheduledJobs' = updateScheduledJobCronExpressionStmt(
                                    scheduledJobs, found[p].cron, found[p].id)
            /\ ret' = Call("schedule", found[p].type, found[p].id)
            /\ UNCHANGED nextScheduledId
       ELSE IF UniqueViolation(scheduledJobs, found[p].type)
       THEN /\ ret' = Call("throw", "UNIQUE constraint failed", None)
            /\ UNCHANGED <<scheduledJobs, nextScheduledId>>
       ELSE /\ scheduledJobs' = insertScheduledJobStmt(
                                    scheduledJobs, nextScheduledId,
                                    found[p].type, found[p].cron, 0, now)
            /\ nextScheduledId' = nextScheduledId + 1
            /\ ret' = Call("schedule", found[p].type, nextScheduledId)
    /\ UNCHANGED now

getAndMarkScheduledJobUnmarked ==
    /\ IF getNextScheduledJobStmt(scheduledJobs, now) = {}
       THEN ret' = Call("getAndMarkScheduledJobAsProcessing", None, None)
       ELSE \E job \in getNextScheduledJobStmt(scheduledJobs, now) :
               ret' = Call("getAndMarkScheduledJobAsProcessing", None, job)
    /\ UNCHANGED <<scheduledJobs, nextScheduledId, found, now>>

getAndMarkScheduledJobAsProcessing ==
    /\ IF getNextScheduledJobStmt(scheduledJobs, now) = {}
       THEN /\ ret' = Call("getAndMarkScheduledJobAsProcessing", None, None)
            /\ UNCHANGED scheduledJobs
       ELSE \E job \in getNextScheduledJobStmt(scheduledJobs, now) :
               /\ scheduledJobs' = updateScheduledJobStatusStmt(
                                       scheduledJobs, ScheduledProcessing,
                                       scheduledJobs[job].nextRun, job)
               /\ ret' = Call("getAndMarkScheduledJobAsProcessing", None, job)
    /\ UNCHANGED <<nextScheduledId, found, now>>

markScheduledJobAsIdle(id, nextRun) ==
    /\ scheduledJobs' = updateScheduledJobStatusStmt(
                            scheduledJobs, ScheduledIdle, nextRun, id)
    /\ ret' = Call("markScheduledJobAsIdle", nextRun, id)
    /\ UNCHANGED <<nextScheduledId, found, now>>

\* the clock, for the specifications that leave the jobs table alone
Clock ==
    /\ now < MaxTime
    /\ now' = now + 1
    /\ UNCHANGED <<scheduledJobs, nextScheduledId, found, ret>>

\* what the methods on the scheduled-jobs table never touch
queue == <<jobs, nextId, held, leased, claimedAt, stale, tx,
           maintenanceTimeout, db, notBefore, cycle, fired,
          callback, listed>>

\* processes define schedules
Scheduling(procs, crons) ==
    \/ \E p \in procs, type \in Types, cron \in crons :
          scheduleInvalid(p, type, cron)
    \/ \E p \in procs, type \in Types, cron \in crons :
          scheduleSelect(p, type, cron)
    \/ \E p \in procs : scheduleWrite(p)

\* a worker claims the next due scheduled job
ClaimScheduled ==
    /\ getAndMarkScheduledJobAsProcessing
    /\ leasedScheduled' = IF ret'.id = None THEN leasedScheduled
                          ELSE leasedScheduled \cup {ret'.id}

\* a worker hands a scheduled job back with its next run
ReleaseScheduled ==
    \E id \in 1..Cardinality(Types), nextRun \in NextRuns :
       /\ markScheduledJobAsIdle(id, nextRun)
       /\ leasedScheduled' = leasedScheduled \ {id}

(***************************************************************************)
(* Several processes defining schedules while scheduled jobs are claimed.  *)
(***************************************************************************)
NextSchedule ==
    \/ Scheduling(Callers, Crons) /\ UNCHANGED <<queue, leasedScheduled>>
    \/ ClaimScheduled /\ UNCHANGED queue
    \/ Clock /\ UNCHANGED <<queue, leasedScheduled>>

SpecSchedule == Init /\ [][NextSchedule]_vars

(***************************************************************************)
(* One process defining schedules, workers claiming the due ones and       *)
(* handing them back.                                                      *)
(***************************************************************************)
Schedulers == {"w1"}

NextScheduler ==
    \/ Scheduling(Schedulers, Crons) /\ UNCHANGED <<queue, leasedScheduled>>
    \/ ClaimScheduled /\ UNCHANGED queue
    \/ ReleaseScheduled /\ UNCHANGED queue
    \/ Clock /\ UNCHANGED <<queue, leasedScheduled>>

SpecScheduler == Init /\ [][NextScheduler]_vars

(***************************************************************************)
(* addMany statement by statement.  insertManyJobs is a db.transaction:    *)
(* BEGIN, one insertJobStmt.run per job, COMMIT, or ROLLBACK when a run    *)
(* throws.  The database is in WAL mode: while the transaction is open the *)
(* other connections read the last committed table and their writes wait   *)
(* for the write lock.                                                     *)
(***************************************************************************)
\* JSON.stringify(undefined) is undefined, which insertJobStmt.run rejects
\* (the data column is NOT NULL)
Undefined == "undefined"

BatchPayloads == {"p", "q", Undefined}

DataLists == UNION {[1..n -> BatchPayloads] : n \in 0..MaxBatch}

\* what a connection reads while transaction t of another connection is
\* open
snapshotUncommitted(committed, t) == IF t.open THEN t.js ELSE committed

snapshot(committed, t) == committed

countJobsByTypeStmt(js, type) ==
    Cardinality({i \in DOMAIN js : js[i].type = type})

\* const now = Date.now(); BEGIN
addManyBegin(type, dataList) ==
    /\ ~tx.open
    /\ tx' = [open |-> TRUE, type |-> type, dataList |-> dataList,
              ids |-> << >>, js |-> jobs, createdAt |-> now]
    /\ UNCHANGED <<jobs, nextId, now, held, ret>>

\* one turn of the loop: insertJobStmt.run(job); ids.push(lastInsertRowid);
\* a run that throws rolls the transaction back and addMany throws
addManyInsert ==
    LET k == Len(tx.ids) + 1
        id == nextId + Len(tx.ids)
    IN /\ tx.open
       /\ k <= Len(tx.dataList)
       /\ IF tx.dataList[k] = Undefined
          THEN /\ tx' = NoTx
               /\ ret' = Call("throw", "NOT NULL constraint failed", None)
          ELSE /\ tx' = [tx EXCEPT
                            !.js = insertJobStmt(tx.js, id, tx.type,
                                       serializer(tx.dataList[k]),
                                       tx.createdAt),
                            !.ids = Append(tx.ids, id)]
               /\ UNCHANGED ret
       /\ UNCHANGED <<jobs, nextId, now, held>>

\* COMMIT; return { ids }: the returned array is what tx.ids holds after
\* the call, and ret.id is its last element
addManyCommit ==
    /\ tx.open
    /\ Len(tx.ids) = Len(tx.dataList)
    /\ jobs' = tx.js
    /\ nextId' = nextId + Len(tx.ids)
    /\ ret' = Call("addMany", tx.type, nextId' - 1)
    /\ tx' = [NoTx EXCEPT !.ids = tx.ids]
    /\ UNCHANGED <<now, held>>

\* countJobs({ type }) on another connection
countJobs(type) ==
    /\ ret' = Call("countJobs", type,
                   countJobsByTypeStmt(snapshot(jobs, tx), type))
    /\ UNCHANGED <<jobs, nextId, now, held, tx>>

NextBatch ==
    \/ \E type \in WorkerTypes, dataList \in DataLists :
          /\ nextId + Len(dataList) - 1 <= MaxJobs
          /\ addManyBegin(type, dataList)
          /\ UNCHANGED <<observers, scheduler, engine>>
    \/ addManyInsert /\ UNCHANGED <<observers, scheduler, engine>>
    \/ addManyCommit /\ UNCHANGED <<observers, scheduler, engine>>
    \/ \E type \in WorkerTypes :
          countJobs(type) /\ UNCHANGED <<observers, scheduler, engine>>
    \/ ~tx.open /\ Claim(WorkerTypes) /\ UNCHANGED <<observers, rest>>
    \/ Tick /\ UNCHANGED <<observers, rest>>

SpecBatch == Init /\ [][NextBatch]_vars

(***************************************************************************)
(* countJobs(opts) with its four statements.  opts.type and opts.status    *)
(* may be absent; the method tests opts.type for truthiness, and an empty  *)
(* string is a type that add accepts.                                      *)
(***************************************************************************)
NoStatus == -1

CountTypes == {"", "t"}

TypeFilters == CountTypes \cup {Undefined}

StatusFilters == JobStatus \cup {NoStatus}

\* opts?.type as a condition
Truthy(type) == type # Undefined /\ type # ""

countJobsStmt(js) == Cardinality(DOMAIN js)

countJobsByTypeAndStatusStmt(js, status, type) ==
    Cardinality({i \in DOMAIN js : js[i].status = status /\ js[i].type = type})

countJobsByStatusStmt(js, status) ==
    Cardinality({i \in DOMAIN js : js[i].status = status})

countJobsOpts(type, status) ==
    /\ ret' = [op |-> "countJobs", arg |-> <<type, status>>,
               id |-> IF Truthy(type) /\ status # NoStatus
                      THEN countJobsByTypeAndStatusStmt(jobs, status, type)
                      ELSE IF status # NoStatus /\ ~Truthy(type)
                      THEN countJobsByStatusStmt(jobs, status)
                      ELSE IF Truthy(type) /\ status = NoStatus
                      THEN countJobsByTypeStmt(jobs, type)
                      ELSE countJobsStmt(jobs),
               n |-> NoCounts]
    /\ UNCHANGED <<jobs, nextId, now, held>>

NextCount ==
    \/ Produce(CountTypes, MaxJobs) /\ UNCHANGED <<observers, rest>>
    \/ Claim(CountTypes) /\ UNCHANGED <<observers, rest>>
    \/ Report /\ UNCHANGED <<observers, rest>>
    \/ \E type \in TypeFilters, status \in StatusFilters :
          countJobsOpts(type, status) /\ UNCHANGED <<observers, rest>>

SpecCount == Init /\ [][NextCount]_vars

(***************************************************************************)
(* The engine from defineQueue to close(): the setInterval callback of     *)
(* initializeMaintenance with the errors its steps can raise, and close(). *)
(* A step raises either because its statement fails (the store is busy or  *)
(* unreachable), before anything is written, or because the callback it    *)
(* hands its count to throws, after the statement has run.  The callback   *)
(* of initializeMaintenance has no try/catch: what a step raises leaves    *)
(* the callback.                                                           *)
(***************************************************************************)
\* the step of a tick that raises (0: none) and why
FailAt == 0..3

FaultKinds == {"store error", "callback throws"}

\* statement k of the tick is executed
Ran(k, failAt, kind) ==
    \/ failAt = 0
    \/ k < failAt
    \/ (k = failAt /\ kind = "callback throws")

\* one firing of the timer
Interval(failAt, kind) ==
    LET t1 == now - jobProcessingTimeout
        j1 == IF Ran(1, failAt, kind)
              THEN requeueTimedOutJobsStmt(jobs, t1) ELSE jobs
        t2 == now - removeDoneJobsOlderThan
        j2 == IF Ran(2, failAt, kind)
              THEN removeDoneJobsStmt(j1, t2) ELSE j1
        t3 == now - removeFailedJobsOlderThan
        j3 == IF Ran(3, failAt, kind)
              THEN removeFailedJobsStmt(j2, t3) ELSE j2
    IN /\ maintenanceTimeout
       /\ jobs' = j3
       /\ ret' = [op |-> IF failAt = 0 THEN "maintenance" ELSE "throw",
                  arg |-> IF failAt = 0 THEN "" ELSE kind,
                  id |-> failAt,
                  n |-> [requeued |-> IF Ran(1, failAt, kind)
                                      THEN Cardinality(TimedOut(jobs, t1))
                                      ELSE 0,
                         done |-> IF Ran(2, failAt, kind)
                                  THEN Cardinality(DoneBefore(j1, t2))
                                  ELSE 0,
                         failed |-> IF Ran(3, failAt, kind)
                                    THEN Cardinality(FailedBefore(j2, t3))
                                    ELSE 0]]
       /\ UNCHANGED <<nextId, now, held>>

closeKeepsTimer ==
    /\ db' = "closed"
    /\ ret' = Call("close", None, None)
    /\ UNCHANGED <<jobs, nextId, now, held, maintenanceTimeout>>

close ==
    /\ maintenanceTimeout' = FALSE
    /\ db' = "closed"
    /\ ret' = Call("close", None, None)
    /\ UNCHANGED <<jobs, nextId, now, held>>

\* a queue method called on the closed connection throws
CallClosed ==
    /\ db = "closed"
    /\ ret' = Call("throw", "The database connection is not open", None)
    /\ UNCHANGED <<jobs, nextId, now, held>>

\* what the queue methods and the timer leave alone
idle == <<leased, claimedAt, stale, scheduledJobs, nextScheduledId, found,
          leasedScheduled, tx, notBefore, cycle, fired,
          callback, listed>>

NextEngine ==
    \/ db = "open" /\ Produce(WorkerTypes, MaxJobs)
          /\ UNCHANGED <<observers, rest>>
    \/ db = "open" /\ Claim(WorkerTypes) /\ UNCHANGED <<observers, rest>>
    \/ db = "open" /\ Report /\ UNCHANGED <<observers, rest>>
    \/ \E failAt \in FailAt, kind \in FaultKinds :
          Interval(failAt, kind) /\ UNCHANGED <<observers, rest>>
    \/ close /\ UNCHANGED idle
    \/ CallClosed /\ UNCHANGED <<observers, rest>>
    \/ Environment /\ UNCHANGED <<observers, rest>>

SpecEngine == Init /\ [][NextEngine]_vars

(***************************************************************************)
(* Jobs added with a delay.  The tests call add(type, data, { delay });    *)
(* add takes (type, data) and a third argument is not read.  The instant   *)
(* before which the caller asked the job not to run is kept by an          *)
(* observer; the store has no column for it.                               *)
(***************************************************************************)
\* the delay of the call; 0 stands for a call without the option
Delays == {0, 1}

addDelayed(type, data, delay) ==
    /\ add(type, data)
    /\ notBefore' = notBefore @@ (nextId :> now + delay)

NextDelay ==
    \/ \E type \in WorkerTypes, data \in Payloads, delay \in Delays :
          /\ nextId <= MaxJobs
          /\ addDelayed(type, data, delay)
          /\ UNCHANGED <<observers, scheduler, tx, maintenanceTimeout, db, cycle,
                       fired, callback, listed>>
    \/ Claim(WorkerTypes) /\ UNCHANGED <<observers, rest>>
    \/ Report /\ UNCHANGED <<observers, rest>>
    \/ Environment /\ UNCHANGED <<observers, rest>>

SpecDelay == Init /\ [][NextDelay]_vars

(***************************************************************************)
(* Progress.  Workers of one type poll, run their handler and report; the  *)
(* maintenance timer fires; the clock advances; a worker may die holding   *)
(* its job.  The clock of the model stops at MaxTime: jobs are added early *)
(* enough for their lease to run out before it stops, and workers stop     *)
(* dying when it stops.                                                    *)
(***************************************************************************)
LiveAdd ==
    /\ nextId <= MaxJobs
    /\ now < MaxTime - jobProcessingTimeout
    /\ \E type \in WorkerTypes, data \in Payloads : add(type, data)
    /\ UNCHANGED <<observers, rest>>

\* a worker without a job polls the queue
Poll(w) ==
    /\ \E type \in WorkerTypes : getAndMarkJobAsProcessing(w, type)
    /\ UNCHANGED <<observers, rest>>

\* the handler of a worker returns or throws, and the worker reports
Handle(w) ==
    /\ \/ markJobAsDone(w)
       \/ \E error \in Errors : markJobAsFailed(w, error)
    /\ UNCHANGED <<observers, rest>>

LiveMaintenance == Maintenance /\ UNCHANGED <<observers, rest>>

LiveTick == Tick /\ UNCHANGED <<observers, rest>>

LiveCrash ==
    /\ now < MaxTime
    /\ \E w \in Callers : Crash(w)
    /\ UNCHANGED <<observers, rest>>

NextLive ==
    \/ LiveAdd
    \/ \E w \in Callers : Poll(w)
    \/ \E w \in Callers : Handle(w)
    \/ LiveMaintenance
    \/ LiveTick
    \/ LiveCrash

\* some worker keeps polling, handlers terminate, the timer keeps firing
\* and time passes
Fairness ==
    /\ WF_vars(\E w \in Callers : Poll(w))
    /\ \A w \in Callers : WF_vars(Handle(w))
    /\ WF_vars(LiveMaintenance)
    /\ WF_vars(LiveTick)

SpecLive == Init /\ [][NextLive]_vars /\ Fairness

(***************************************************************************)
(* The scheduler cycle, driven by the workers: claim a due definition, add *)
(* one job of its type, compute the next due instant strictly after now    *)
(* from the cron expression of the claimed row, hand the definition back.  *)
(***************************************************************************)
\* the payload of a job created from a definition
EmptyData == "{}"

\* the next instant strictly after t that the cron expression matches: an
\* expression matching every instant, and one matching every second instant
nextDue(cron, t) ==
    IF cron = "* * * * *" THEN t + 1
    ELSE IF t % 2 = 0 THEN t + 2 ELSE t + 1

CycleClaim(w) ==
    /\ cycle[w] = NotDriving
    /\ getAndMarkScheduledJobAsProcessing
    /\ cycle' = IF ret'.id = None THEN cycle
                ELSE [cycle EXCEPT ![w] =
                         [pc |-> "add", id |-> ret'.id,
                          type |-> scheduledJobs[ret'.id].type,
                          cron |-> scheduledJobs[ret'.id].cronExpression,
                          due |-> scheduledJobs[ret'.id].nextRun]]
    /\ UNCHANGED <<jobs, nextId, held, observers, leasedScheduled, tx,
                   maintenanceTimeout, db, notBefore, fired, callback,
                   listed>>

CycleAdd(w) ==
    /\ cycle[w].pc = "add"
    /\ add(cycle[w].type, EmptyData)
    /\ fired' = fired \cup {<<cycle[w].id, cycle[w].due, nextId>>}
    /\ cycle' = [cycle EXCEPT ![w].pc = "idle"]
    /\ UNCHANGED <<observers, scheduler, tx, maintenanceTimeout, db,
                   notBefore, callback, listed>>

CycleIdle(w) ==
    /\ cycle[w].pc = "idle"
    /\ markScheduledJobAsIdle(cycle[w].id, nextDue(cycle[w].cron, now))
    /\ cycle' = [cycle EXCEPT ![w] = NotDriving]
    /\ UNCHANGED <<jobs, nextId, held, observers, leasedScheduled, tx,
                   maintenanceTimeout, db, notBefore, fired, callback,
                   listed>>

NextCycle ==
    \/ \E p \in Schedulers, type \in WorkerTypes, cron \in ValidCrons :
          scheduleSelect(p, type, cron)
             /\ UNCHANGED <<queue, leasedScheduled>>
    \/ \E p \in Schedulers :
          scheduleWrite(p) /\ UNCHANGED <<queue, leasedScheduled>>
    \/ \E w \in Callers : CycleClaim(w)
    \/ \E w \in Callers : CycleAdd(w)
    \/ \E w \in Callers : CycleIdle(w)
    \/ Clock /\ UNCHANGED <<queue, leasedScheduled>>

\* some worker keeps polling for due definitions and a worker that has
\* claimed one goes through with the cycle
CycleFairness ==
    /\ WF_vars(\E w \in Callers : CycleClaim(w))
    /\ \A w \in Callers : WF_vars(CycleAdd(w))
    /\ \A w \in Callers : WF_vars(CycleIdle(w))

SpecCycle == Init /\ [][NextCycle]_vars /\ CycleFairness

(***************************************************************************)
(* The run loop of a worker: poll, call onProcessing and run the handler;  *)
(* when the handler returns, markJobAsDone and onCompleted; when it throws,*)
(* markJobAsFailed with the message and onFailed with the job and the      *)
(* message; then poll again.                                               *)
(***************************************************************************)
frame == <<observers, scheduler, tx, maintenanceTimeout, db, notBefore,
           cycle, fired, listed>>

WorkerPoll(w) ==
    /\ \E type \in WorkerTypes : getAndMarkJobAsProcessing(w, type)
    /\ callback' = IF ret'.id = None THEN callback
                   ELSE [name |-> "onProcessing", id |-> ret'.id,
                         error |-> ""]
    /\ UNCHANGED frame

\* the handler returns
WorkerSucceed(w) ==
    /\ markJobAsDone(w)
    /\ callback' = [name |-> "onCompleted", id |-> held[w], error |-> ""]
    /\ UNCHANGED frame

\* the handler throws an error with the given message
WorkerFail(w, message) ==
    /\ markJobAsFailed(w, message)
    /\ callback' = [name |-> "onFailed", id |-> held[w], error |-> message]
    /\ UNCHANGED frame

NextWorker ==
    \/ Produce(WorkerTypes, MaxJobs) /\ UNCHANGED <<observers, rest>>
    \/ \E w \in Callers : WorkerPoll(w)
    \/ \E w \in Callers : WorkerSucceed(w)
    \/ \E w \in Callers, message \in Errors : WorkerFail(w, message)
    \/ Maintenance /\ UNCHANGED <<observers, rest>>
    \/ Tick /\ UNCHANGED <<observers, rest>>

SpecWorker == Init /\ [][NextWorker]_vars

(***************************************************************************)
(* The two tables side by side: one caller works on jobs of two types      *)
(* while the maintenance steps run and a definition is scheduled, claimed  *)
(* and handed back.  The jobs are added and the definition is scheduled at *)
(* the first instant.                                                      *)
(***************************************************************************)
StoreCallers == {"w1"}

StoreCrons == {"* * * * *"}

NextStore ==
    \/ now = 0 /\ Produce(Types, MaxJobs) /\ UNCHANGED <<observers, rest>>
    \/ \E w \in StoreCallers, type \in Types :
          getAndMarkJobAsProcessing(w, type) /\ UNCHANGED <<observers, rest>>
    \/ \E w \in StoreCallers :
          markJobAsDone(w) /\ UNCHANGED <<observers, rest>>
    \/ \E w \in StoreCallers, error \in Errors :
          markJobAsFailed(w, error) /\ UNCHANGED <<observers, rest>>
    \/ requeueTimedOutJobs(jobProcessingTimeout)
          /\ UNCHANGED <<observers, rest>>
    \/ Sweep /\ UNCHANGED <<observers, rest>>
    \/ Tick /\ UNCHANGED <<observers, rest>>
    \/ \E p \in Schedulers, type \in WorkerTypes, cron \in StoreCrons :
          now = 0 /\ scheduleSelect(p, type, cron)
             /\ UNCHANGED <<queue, leasedScheduled>>
    \/ \E p \in Schedulers :
          scheduleWrite(p) /\ UNCHANGED <<queue, leasedScheduled>>
    \/ getAndMarkScheduledJobAsProcessing
          /\ UNCHANGED <<queue, leasedScheduled>>
    \/ \E id \in 1..Cardinality(WorkerTypes) :
          markScheduledJobAsIdle(id, now + 1)
             /\ UNCHANGED <<queue, leasedScheduled>>

SpecStore == Init /\ [][NextStore]_vars

(***************************************************************************)
(* Listing the definitions.  getScheduledJobsStmt is ORDER BY created_at   *)
(* over a table with no index on created_at: the order of rows of equal    *)
(* created_at is not specified (a scan in reverse rowid order, as under    *)
(* PRAGMA reverse_unordered_selects, returns them the other way round).    *)
(***************************************************************************)
\* the lists the statement may return: every row once, by created_at
getScheduledJobsStmt(sj) ==
    {list \in [1..Cardinality(DOMAIN sj) -> DOMAIN sj] :
        /\ \A i \in DOMAIN sj : \E k \in DOMAIN list : list[k] = i
        /\ \A k \in DOMAIN list, l \in DOMAIN list :
              k < l => sj[list[k]].createdAt <= sj[list[l]].createdAt}

getScheduledJobs ==
    /\ listed' \in getScheduledJobsStmt(scheduledJobs)
    /\ ret' = Call("getScheduledJobs", None, Len(listed'))
    /\ UNCHANGED <<scheduledJobs, nextScheduledId, found, now>>

\* what the methods on the scheduled-jobs table other than getScheduledJobs
\* never touch
others == <<jobs, nextId, held, leased, claimedAt, stale, tx,
            maintenanceTimeout, db, notBefore, cycle, fired, callback>>

NextListing ==
    \/ Scheduling(Schedulers, Crons) /\ UNCHANGED <<queue, leasedScheduled>>
    \/ getScheduledJobs /\ UNCHANGED <<others, leasedScheduled>>
    \/ Clock /\ UNCHANGED <<queue, leasedScheduled>>

SpecListing == Init /\ [][NextListing]_vars

(***************************************************************************)
(* Producers, claimers and the reaper, observed through `leased`: a job    *)
(* that is Pending and in `leased` has been claimed and then requeued.     *)
(***************************************************************************)
NextRequeue ==
    \/ Produce(Types, MaxJobs) /\ UNCHANGED <<observers, rest>>
    \/ ClaimLeased /\ UNCHANGED rest
    \/ Requeue /\ UNCHANGED <<observers, rest>>
    \/ Environment /\ UNCHANGED <<observers, rest>>

SpecRequeue == Init /\ [][NextRequeue]_vars

(***************************************************************************)
(* Properties.                                                             *)
(***************************************************************************)

\* a step of getAndMarkJobAsProcessing(type) by some caller
ClaimStep(type) ==
    /\ ret'.op = "getAndMarkJobAsProcessing"
    /\ ret'.arg = type
    /\ \E w \in Callers : getAndMarkJobAsProcessing(w, type)

\* the rows a step changed
Changed == {i \in DOMAIN jobs : i \notin DOMAIN jobs' \/ jobs'[i] # jobs[i]}

\* C1: No double claim.  With no requeueTimedOutJobs step in between
\* (SpecClaims has none), a call of getAndMarkJobAsProcessing never returns
\* the id that an earlier call already returned.
C1_NoDoubleClaim ==
    [][\A type \in Types :
          (ClaimStep(type) /\ ret'.id # None) => ret'.id \notin leased]_vars

\* C2: At-most-one claim.  Callers race getAndMarkJobAsProcessing(t) against
\* exactly one Pending job of type t.  Whatever the order, the first call
\* of the race runs with one Pending job and receives it, leaving none
\* Pending; every other call of the race runs with none Pending and
\* receives none.
C2_AtMostOneClaim ==
    [][\A type \in Types :
          ClaimStep(type) =>
             /\ Cardinality(PendingOfType(jobs, type)) = 1 =>
                   /\ ret'.id \in PendingOfType(jobs, type)
                   /\ PendingOfType(jobs', type) = {}
             /\ (Cardinality(PendingOfType(jobs, type)) = 0
                   /\ ret.op = "getAndMarkJobAsProcessing"
                   /\ ret.arg = type) => ret'.id = None]_vars

\* C3: getAndMarkJobAsProcessing(type) returns none whenever no job of that
\* type is Pending at the call, whatever the statuses of the other jobs of
\* that type.
C3_NoneWithoutPending ==
    [][\A type \in Types :
          (ClaimStep(type) /\ PendingOfType(jobs, type) = {})
             => ret'.id = None]_vars

\* C4: The row a call of getAndMarkJobAsProcessing returns is the job this
\* very call moved from Pending to Processing.
C4_ReturnsTransitionedJob ==
    [][\A type \in Types :
          (ClaimStep(type) /\ ret'.id # None) =>
             /\ Changed = {ret'.id}
             /\ jobs[ret'.id].status = Pending
             /\ jobs'[ret'.id].status = Processing]_vars

\* C5: FIFO-by-type.  FifoJobs jobs of one type are enqueued into an
\* otherwise empty queue and nothing is completed or failed (SpecFifo has
\* no such step): the claims of that type return the first job, then the
\* second, then the third.
C5_FifoByType ==
    [][\A type \in Types :
          (/\ ClaimStep(type)
           /\ DOMAIN jobs = 1..FifoJobs
           /\ \A i \in DOMAIN jobs : jobs[i].type = type
           /\ Cardinality(leased) < FifoJobs
           /\ leased = 1..Cardinality(leased))
             => ret'.id = Cardinality(leased) + 1]_vars

\* the oldest of the rows S: smallest createdAt, then smallest id
IsOldest(j, S) ==
    /\ j \in S
    /\ \A k \in S : \/ jobs[j].createdAt < jobs[k].createdAt
                    \/ (jobs[j].createdAt = jobs[k].createdAt /\ j <= k)

\* C6: A call of getAndMarkJobAsProcessing(type) that finds a Pending job of
\* that type changes exactly one job: the Pending job of that type with the
\* smallest createdAt, ties broken by the smallest id; it changes only that
\* job's status, to Processing.
C6_ClaimsOldestPending ==
    [][\A type \in Types :
          (ClaimStep(type) /\ PendingOfType(jobs, type) # {}) =>
             \E j \in PendingOfType(jobs, type) :
                /\ IsOldest(j, PendingOfType(jobs, type))
                /\ Changed = {j}
                /\ DOMAIN jobs' = DOMAIN jobs
                /\ jobs'[j] = [jobs[j] EXCEPT !.status = Processing]]_vars

\* a claim has just acted on a batch: of two jobs of one type created at the
\* same instant, the one with the smaller id is Processing, the other Pending
C6_Witness ==
    /\ ret.op = "getAndMarkJobAsProcessing"
    /\ ret.id # None
    /\ \E i, j \in DOMAIN jobs :
          /\ i < j
          /\ jobs[i].type = ret.arg /\ jobs[j].type = ret.arg
          /\ jobs[i].createdAt = jobs[j].createdAt
          /\ jobs[i].status = Processing
          /\ jobs[j].status = Pending

\* C7: State machine closure.  Every job's status is one of the four
\* values; a Failed job has non-null failedAt and error; a job of any other
\* status has both null.
C7_StateMachineClosure ==
    \A i \in DOMAIN jobs :
       /\ jobs[i].status \in JobStatus
       /\ jobs[i].status = Failed =>
             (jobs[i].failedAt # NullTime /\ jobs[i].error # NullError)
       /\ jobs[i].status # Failed =>
             (jobs[i].failedAt = NullTime /\ jobs[i].error = NullError)

Terminal(i) == jobs[i].status \in {Done, Failed}

\* C8 as stated: once a job is Done or Failed no step changes its status
\* again, a report by a caller that claimed the job earlier included; the
\* row can only disappear.  Stated for the runs in which every claim
\* returned the job it had itself transitioned (stale = {}).
C8_TerminalForever ==
    [][\A i \in DOMAIN jobs :
          (stale = {} /\ Terminal(i) /\ i \in DOMAIN jobs')
             => jobs'[i].status = jobs[i].status]_vars

ReportStep(i) ==
    /\ ret'.op \in {"markJobAsDone", "markJobAsFailed"}
    /\ \E w \in Callers :
          /\ held[w] = i
          /\ \/ markJobAsDone(w)
             \/ \E error \in Errors : markJobAsFailed(w, error)

SweepStep ==
    /\ ret'.op \in {"removeDoneJobs", "removeFailedJobs", "maintenance"}
    /\ \/ \E olderThan \in Retentions : removeDoneJobs(olderThan)
       \/ \E olderThan \in Retentions : removeFailedJobs(olderThan)
       \/ Maintenance

\* C8 (amended): once a job is Done or Failed, no add, claim or
\* requeueTimedOutJobs changes its status; its status changes only when a
\* caller that claimed the job earlier reports markJobAsDone or
\* markJobAsFailed for it (last write wins), and its row disappears only in
\* a retention sweep.
C8_TerminalUnlessReported ==
    [][\A i \in DOMAIN jobs :
          Terminal(i) =>
             /\ i \notin DOMAIN jobs' => SweepStep
             /\ (i \in DOMAIN jobs' /\ jobs'[i].status # jobs[i].status)
                   => ReportStep(i)]_vars

\* a maintenance or claim call has just run over a store that holds a Done
\* and a Failed job, and left both as they were
C8_Witness ==
    /\ ret.op \in {"requeueTimedOutJobs", "getAndMarkJobAsProcessing"}
    /\ \E i, j \in DOMAIN jobs :
          jobs[i].status = Done /\ jobs[j].status = Failed

\* a step that runs requeueTimedOutJobs with the given timeout: the public
\* method, or the maintenance tick with the configured timeout
RequeueCall(timeout) ==
    /\ ret'.op = "requeueTimedOutJobs"
    /\ ret'.arg = timeout
    /\ requeueTimedOutJobs(timeout)

RequeueStep(timeout) ==
    \/ RequeueCall(timeout)
    \/ /\ ret'.op = "maintenance"
       /\ timeout = jobProcessingTimeout
       /\ Maintenance

\* C9 as stated: a job returned by a claim at instant c stays Processing
\* through every requeueTimedOutJobs(timeout) at an instant before
\* c + timeout, however long it had been Pending before.  Stated for the
\* callers whose claim returned the job it had itself transitioned.
C9_LeaseFromClaim ==
    [][\A timeout \in Timeouts, w \in Callers :
          (/\ RequeueStep(timeout)
           /\ held[w] \in DOMAIN jobs
           /\ jobs[held[w]].status = Processing
           /\ claimedAt[w] # NullTime
           /\ now < claimedAt[w] + timeout)
             => jobs'[held[w]].status = Processing]_vars

\* C9 (amended): the lease window runs from the job's createdAt, not from
\* the claim instant: requeueTimedOutJobs(timeout) called at an instant not
\* later than createdAt + timeout never moves a Processing job back to
\* Pending.
C9_LeaseFromCreation ==
    [][\A timeout \in Timeouts, i \in DOMAIN jobs :
          (/\ RequeueStep(timeout)
           /\ jobs[i].status = Processing
           /\ now <= jobs[i].createdAt + timeout)
             => (i \in DOMAIN jobs' /\ jobs'[i] = jobs[i])]_vars

\* requeueTimedOutJobs has run while a caller held a job it had claimed
\* after the job had waited as Pending, inside the window counted from
\* createdAt: the job is still Processing
C9_Witness ==
    /\ ret.op = "requeueTimedOutJobs"
    /\ \E w \in Callers :
          /\ held[w] \in DOMAIN jobs
          /\ jobs[held[w]].status = Processing
          /\ claimedAt[w] > jobs[held[w]].createdAt
          /\ now <= jobs[held[w]].createdAt + ret.arg

\* C10: requeueTimedOutJobs(timeout) sets to Pending exactly the jobs that
\* are Processing with createdAt < now - timeout, changes nothing else and
\* reports their number to onProcessingJobsRequeued; the maintenance tick
\* does the same with the configured timeout, so a job claimed and never
\* completed is Pending again after it; a requeued job is among the Pending
\* jobs of its type that a later claim selects from.
C10_Requeue ==
    [][\A timeout \in Timeouts :
          LET R == {i \in DOMAIN jobs : /\ jobs[i].status = Processing
                                        /\ jobs[i].createdAt < now - timeout}
          IN /\ RequeueCall(timeout) =>
                   /\ DOMAIN jobs' = DOMAIN jobs
                   /\ \A i \in DOMAIN jobs :
                         jobs'[i] = IF i \in R
                                    THEN [jobs[i] EXCEPT !.status = Pending]
                                    ELSE jobs[i]
                   /\ ret'.n.requeued = Cardinality(R)
             /\ RequeueStep(timeout) =>
                   /\ ret'.n.requeued = Cardinality(R)
                   /\ \A i \in R :
                         /\ i \in PendingOfType(jobs', jobs[i].type)
                         /\ SelectPendingJob(jobs', jobs[i].type) # {}]_vars

\* a job was claimed, requeued after its timeout and claimed again: two
\* callers hold it, and each claim returned the job it had transitioned
C10_Witness ==
    /\ ret.op = "getAndMarkJobAsProcessing"
    /\ stale = {}
    /\ \E w, v \in Callers :
          /\ w # v
          /\ held[w] = ret.id
          /\ held[v] = ret.id
          /\ held[w] \in DOMAIN jobs
          /\ jobs[held[w]].status = Processing

\* a step of removeDoneJobs(olderThan)
RemoveDoneCall(olderThan) ==
    /\ ret'.op = "removeDoneJobs"
    /\ ret'.arg = olderThan
    /\ removeDoneJobs(olderThan)

\* C11: Retention boundary for Done jobs.  removeDoneJobs(olderThan)
\* deletes exactly the Done jobs with createdAt < now - olderThan and
\* changes no other row: a Done job with createdAt = now - olderThan - 1 is
\* removed, one with createdAt = now - olderThan or now - olderThan + 1 is
\* kept; the number deleted is handed to onDoneJobsRemoved.
C11_RemoveDoneBoundary ==
    [][\A olderThan \in Retentions :
          RemoveDoneCall(olderThan) =>
             LET D == {i \in DOMAIN jobs : /\ jobs[i].status = Done
                                           /\ jobs[i].createdAt < now - olderThan}
             IN /\ DOMAIN jobs' = DOMAIN jobs \ D
                /\ \A i \in DOMAIN jobs' : jobs'[i] = jobs[i]
                /\ ret'.n.done = Cardinality(D)
                /\ \A i \in DOMAIN jobs :
                      jobs[i].status = Done =>
                         /\ jobs[i].createdAt = now - olderThan - 1
                               => i \notin DOMAIN jobs'
                         /\ jobs[i].createdAt = now - olderThan
                               => i \in DOMAIN jobs'
                         /\ jobs[i].createdAt = now - olderThan + 1
                               => i \in DOMAIN jobs']_vars

\* removeDoneJobs has deleted a Done job and kept a Done job whose createdAt
\* is exactly now - olderThan
C11_Witness ==
    /\ ret.op = "removeDoneJobs"
    /\ ret.n.done >= 1
    /\ \E i \in DOMAIN jobs :
          /\ jobs[i].status = Done
          /\ jobs[i].createdAt = now - ret.arg

\* a step of removeFailedJobs(olderThan)
RemoveFailedCall(olderThan) ==
    /\ ret'.op = "removeFailedJobs"
    /\ ret'.arg = olderThan
    /\ removeFailedJobs(olderThan)

\* C12: removeFailedJobs(olderThan) deletes exactly the Failed jobs with
\* failedAt < now - olderThan, whatever their createdAt, changes no other
\* row, and hands the number deleted to onFailedJobsRemoved.
C12_RemoveFailedByFailedAt ==
    [][\A olderThan \in Retentions :
          RemoveFailedCall(olderThan) =>
             LET F == {i \in DOMAIN jobs : /\ jobs[i].status = Failed
                                           /\ jobs[i].failedAt < now - olderThan}
             IN /\ DOMAIN jobs' = DOMAIN jobs \ F
                /\ \A i \in DOMAIN jobs' : jobs'[i] = jobs[i]
                /\ ret'.n.failed = Cardinality(F)]_vars

\* removeFailedJobs has deleted a Failed job and kept a Failed job that was
\* created more than olderThan ago but failed less than olderThan ago
C12_Witness ==
    /\ ret.op = "removeFailedJobs"
    /\ ret.n.failed >= 1
    /\ \E i \in DOMAIN jobs :
          /\ jobs[i].status = Failed
          /\ jobs[i].createdAt < now - ret.arg
          /\ jobs[i].failedAt >= now - ret.arg

\* C13: a job row is deleted only while its status is Done or Failed: no
\* step of any operation removes a Pending or Processing job.
C13_DeleteOnlyTerminal ==
    [][\A i \in DOMAIN jobs :
          i \notin DOMAIN jobs' => jobs[i].status \in {Done, Failed}]_vars

\* a retention sweep has deleted a job and left in place a Pending or
\* Processing job older than every retention window
C13_Witness ==
    /\ ret.op \in {"removeDoneJobs", "removeFailedJobs", "maintenance"}
    /\ ret.n.done + ret.n.failed >= 1
    /\ \E i \in DOMAIN jobs :
          /\ jobs[i].status \in {Pending, Processing}
          /\ jobs[i].createdAt < now - ret.arg

\* the ScheduledJob rows of a type
ScheduledOfType(sj, type) == {i \in DOMAIN sj : sj[i].type = type}

\* the write of a schedule call by process p that returns an id
ScheduleReturns(p) ==
    /\ ret'.op = "schedule"
    /\ found[p] # NotScheduling
    /\ scheduleWrite(p)

\* C14: Schedule upsert.  In every reachable state, whatever the
\* interleaving of the schedule calls of several processes, at most one
\* ScheduledJob row exists per type; a schedule call that returns leaves
\* exactly one row of its type, the one whose id it returns, with the cron
\* expression of the call; when a row of the type existed already, the id
\* is that row's and nothing but its cronExpression changed.
C14_ScheduleUpsert ==
    /\ [](\A type \in Types :
             Cardinality(ScheduledOfType(scheduledJobs, type)) <= 1)
    /\ [][\A p \in Callers :
             ScheduleReturns(p) =>
                LET x == found[p].type
                    old == ScheduledOfType(scheduledJobs, x)
                IN /\ ScheduledOfType(scheduledJobs', x) = {ret'.id}
                   /\ scheduledJobs'[ret'.id].cronExpression = found[p].cron
                   /\ old # {} =>
                         /\ old = {ret'.id}
                         /\ scheduledJobs'[ret'.id] =
                               [scheduledJobs[ret'.id] EXCEPT
                                   !.cronExpression = found[p].cron]
                   /\ \A i \in DOMAIN scheduledJobs \ {ret'.id} :
                         scheduledJobs'[i] = scheduledJobs[i]]_vars

\* a schedule call has updated the row of its type, which had been claimed
\* in between, while another process that found no row of that type is
\* about to insert one
C14_Witness ==
    /\ ret.op = "schedule"
    /\ ret.id \in DOMAIN scheduledJobs
    /\ scheduledJobs[ret.id].status = ScheduledProcessing
    /\ scheduledJobs[ret.id].cronExpression = "*/30 * * * *"
    /\ \E p \in Callers :
          /\ found[p] # NotScheduling
          /\ found[p].type = ret.arg
          /\ found[p].id = None

\* the first step of schedule(type, cron) by process p
ScheduleCall(p, type, cron) ==
    /\ found[p] = NotScheduling
    /\ scheduleInvalid(p, type, cron) \/ scheduleSelect(p, type, cron)

\* C15: schedule(type, cron) with a cron expression that cannot be parsed
\* fails with "invalid cron expression provided" and leaves the store
\* unchanged: no statement of the call runs, no row is inserted and the
\* existing rows keep their cronExpression, status and nextRun; no stored
\* cron expression is ever an unparsable one.
C15_InvalidCronRejected ==
    /\ [](\A i \in DOMAIN scheduledJobs :
             parseExpression(scheduledJobs[i].cronExpression))
    /\ [][\A p \in Callers, type \in Types, cron \in Crons \ ValidCrons :
             ScheduleCall(p, type, cron) =>
                /\ ret'.op = "throw"
                /\ ret'.arg = "invalid cron expression provided"
                /\ found'[p] = NotScheduling
                /\ scheduledJobs' = scheduledJobs
                /\ nextScheduledId' = nextScheduledId]_vars

\* a schedule call was rejected for its cron expression while every type
\* had a row, each one claimed or handed back with a later next run
C15_Witness ==
    /\ ret.op = "throw"
    /\ ret.arg = "invalid cron expression provided"
    /\ \A type \in Types : ScheduledOfType(scheduledJobs, type) # {}
    /\ \A i \in DOMAIN scheduledJobs :
          \/ scheduledJobs[i].status = ScheduledProcessing
          \/ scheduledJobs[i].nextRun > 0

\* a step of getAndMarkScheduledJobAsProcessing
ClaimScheduledStep ==
    /\ ret'.op = "getAndMarkScheduledJobAsProcessing"
    /\ getAndMarkScheduledJobAsProcessing

\* C16: schedule(type, cron) for a type that has no ScheduledJob inserts a
\* row with status Idle and nextRun = 0; such a row is due at every instant:
\* a getAndMarkScheduledJobAsProcessing that finds no other due definition
\* returns it and sets it to Processing.
C16_NewScheduleDueImmediately ==
    /\ [][\A p \in Callers :
             (ScheduleReturns(p)
                 /\ ScheduledOfType(scheduledJobs, found[p].type) = {}) =>
                /\ ret'.id \notin DOMAIN scheduledJobs
                /\ scheduledJobs'[ret'.id] =
                      [type |-> found[p].type, status |-> ScheduledIdle,
                       cronExpression |-> found[p].cron, nextRun |-> 0,
                       createdAt |-> now]]_vars
    /\ [][\A i \in DOMAIN scheduledJobs :
             (/\ ClaimScheduledStep
              /\ scheduledJobs[i].status = ScheduledIdle
              /\ scheduledJobs[i].nextRun = 0
              /\ \A j \in DOMAIN scheduledJobs \ {i} :
                    \/ scheduledJobs[j].status # ScheduledIdle
                    \/ scheduledJobs[j].nextRun > now) =>
                /\ ret'.id = i
                /\ scheduledJobs'[i].status = ScheduledProcessing]_vars

\* a definition inserted at a later instant was claimed at that instant
\* while the other definition was not due
C16_Witness ==
    /\ ret.op = "getAndMarkScheduledJobAsProcessing"
    /\ ret.id \in DOMAIN scheduledJobs
    /\ now > 0
    /\ scheduledJobs[ret.id].createdAt = now
    /\ scheduledJobs[ret.id].nextRun = 0
    /\ scheduledJobs[ret.id].status = ScheduledProcessing
    /\ \E j \in DOMAIN scheduledJobs :
          /\ scheduledJobs[j].status = ScheduledIdle
          /\ scheduledJobs[j].nextRun > now

\* C17: Exclusive scheduled claim.  Once getAndMarkScheduledJobAsProcessing
\* has returned a ScheduledJob, no call of it returns the same ScheduledJob
\* until markScheduledJobAsIdle has been called for it.
C17_ExclusiveScheduledClaim ==
    [][(ClaimScheduledStep /\ ret'.id # None)
          => ret'.id \notin leasedScheduled]_vars

\* a claim ran while a due definition was out with a worker, and returned
\* another definition or none
C17_Witness ==
    /\ ret.op = "getAndMarkScheduledJobAsProcessing"
    /\ \E i \in leasedScheduled :
          /\ i # ret.id
          /\ scheduledJobs[i].nextRun <= now
          /\ scheduledJobs[i].createdAt < now

\* C18: getAndMarkScheduledJobAsProcessing returns only a ScheduledJob that
\* was Idle with nextRun <= now at the call, and among those one with the
\* smallest nextRun; it sets that row to Processing and changes nothing
\* else, its nextRun included; when no Idle definition is due it returns
\* none and changes nothing.
C18_ClaimsEarliestDue ==
    [][ClaimScheduledStep =>
          LET D == {i \in DOMAIN scheduledJobs :
                       /\ scheduledJobs[i].status = ScheduledIdle
                       /\ scheduledJobs[i].nextRun <= now}
          IN IF D = {}
             THEN ret'.id = None /\ scheduledJobs' = scheduledJobs
             ELSE /\ ret'.id \in D
                  /\ \A j \in D : scheduledJobs[ret'.id].nextRun
                                     <= scheduledJobs[j].nextRun
                  /\ scheduledJobs' =
                        [scheduledJobs EXCEPT
                            ![ret'.id].status = ScheduledProcessing]]_vars

\* two definitions were due with different nextRun and the claim returned
\* the earlier one
C18_Witness ==
    /\ ret.op = "getAndMarkScheduledJobAsProcessing"
    /\ ret.id \in DOMAIN scheduledJobs
    /\ scheduledJobs[ret.id].status = ScheduledProcessing
    /\ \E j \in DOMAIN scheduledJobs :
          /\ scheduledJobs[j].status = ScheduledIdle
          /\ scheduledJobs[j].nextRun <= now
          /\ scheduledJobs[j].nextRun > scheduledJobs[ret.id].nextRun

\* a step of markScheduledJobAsIdle(id, nextRun)
MarkIdleStep(id, nextRun) ==
    /\ ret'.op = "markScheduledJobAsIdle"
    /\ ret'.id = id
    /\ ret'.arg = nextRun
    /\ markScheduledJobAsIdle(id, nextRun)

\* C19: markScheduledJobAsIdle(id, nextRun) sets the ScheduledJob's status
\* to Idle and its stored next run to nextRun and changes nothing else; a
\* definition is never returned by getAndMarkScheduledJobAsProcessing at an
\* instant before its stored next run, and an Idle definition whose next
\* run has come is returned by the call unless another due Idle definition
\* has a next run that is not later.
C19_IdleUntilNextRun ==
    /\ [][\A id \in DOMAIN scheduledJobs, nextRun \in NextRuns :
             MarkIdleStep(id, nextRun) =>
                scheduledJobs' =
                   [scheduledJobs EXCEPT ![id].status = ScheduledIdle,
                                         ![id].nextRun = nextRun]]_vars
    /\ [][\A i \in DOMAIN scheduledJobs :
             ClaimScheduledStep =>
                /\ ret'.id = i => scheduledJobs[i].nextRun <= now
                /\ (/\ scheduledJobs[i].status = ScheduledIdle
                    /\ scheduledJobs[i].nextRun <= now
                    /\ \A j \in DOMAIN scheduledJobs \ {i} :
                          \/ scheduledJobs[j].status # ScheduledIdle
                          \/ scheduledJobs[j].nextRun > scheduledJobs[i].nextRun)
                      => ret'.id = i]_vars

\* a definition handed back with a later next run was returned again once
\* that instant had come, and not by the claim that ran before it
C19_Witness ==
    /\ ret.op = "getAndMarkScheduledJobAsProcessing"
    /\ ret.id \in DOMAIN scheduledJobs
    /\ scheduledJobs[ret.id].nextRun > scheduledJobs[ret.id].createdAt
    /\ scheduledJobs[ret.id].nextRun = now

\* a step of countJobs({ type })
CountStep(type) ==
    /\ ret'.op = "countJobs"
    /\ ret'.arg = type
    /\ countJobs(type)

\* the COMMIT of addMany
CommitStep ==
    /\ ret'.op = "addMany"
    /\ tx.open
    /\ addManyCommit

\* the elements of a sequence
Range(seq) == {seq[k] : k \in 1..Len(seq)}

\* C20: addMany(type, dataList) is all-or-nothing.  While the batch is
\* being inserted no reader sees any of its jobs (countJobs returns the
\* count without them) and the table the claimers select from holds none
\* of them; the rows appear in one step, at the commit, or not at all when
\* an insert throws.  On success every job of the batch is Pending with the
\* given type, the i-th returned id is the job holding the i-th payload, no
\* other row changed, and countJobs({type}) has grown by Len(dataList).
C20_AddManyAllOrNothing ==
    /\ [](tx.open => Range(tx.ids) \cap DOMAIN jobs = {})
    /\ [][\A type \in WorkerTypes :
             CountStep(type) =>
                ret'.id = Cardinality({i \in DOMAIN jobs :
                                          /\ jobs[i].type = type
                                          /\ tx.open => i \notin Range(tx.ids)})]_vars
    /\ [][jobs' # jobs =>
             \/ CommitStep
             \/ ret'.op = "getAndMarkJobAsProcessing"]_vars
    /\ [][CommitStep =>
             LET ids == tx'.ids
             IN /\ Len(ids) = Len(tx.dataList)
                /\ Cardinality(Range(ids)) = Len(ids)
                /\ Range(ids) \cap DOMAIN jobs = {}
                /\ DOMAIN jobs' = DOMAIN jobs \cup Range(ids)
                /\ \A i \in DOMAIN jobs : jobs'[i] = jobs[i]
                /\ \A k \in 1..Len(ids) :
                      jobs'[ids[k]] =
                         [type |-> tx.type,
                          data |-> serializer(tx.dataList[k]),
                          status |-> Pending, failedAt |-> NullTime,
                          error |-> NullError, createdAt |-> tx.createdAt]
                /\ countJobsByTypeStmt(jobs', tx.type) =
                      countJobsByTypeStmt(jobs, tx.type) + Len(tx.dataList)]_vars

\* a reader counted the jobs while a batch was partly inserted
C20_Witness ==
    /\ ret.op = "countJobs"
    /\ tx.open
    /\ Len(tx.ids) >= 1
    /\ Len(tx.ids) < Len(tx.dataList)
    /\ ret.arg = tx.type

\* a step of add(type, data)
AddStep(type, data) ==
    /\ ret'.op = "add"
    /\ ret'.arg = type
    /\ add(type, data)

\* C21: add(type, data) inserts exactly one new job, with the given type,
\* the serialized payload, status Pending, createdAt = now and null
\* failedAt and error, returns that job's id and changes no existing job,
\* whatever claims are in progress on the type.
C21_AddInsertsOnePending ==
    [][\A type \in Types, data \in Payloads :
          AddStep(type, data) =>
             /\ ret'.id \notin DOMAIN jobs
             /\ DOMAIN jobs' = DOMAIN jobs \cup {ret'.id}
             /\ jobs'[ret'.id] =
                   [type |-> type, data |-> serializer(data),
                    status |-> Pending, failedAt |-> NullTime,
                    error |-> NullError, createdAt |-> now]
             /\ \A i \in DOMAIN jobs : jobs'[i] = jobs[i]]_vars

\* add has returned a new Pending job at a later instant while a caller
\* held a Processing job of the same type
C21_Witness ==
    /\ ret.op = "add"
    /\ ret.id \in DOMAIN jobs
    /\ now > 0
    /\ jobs[ret.id].status = Pending
    /\ jobs[ret.id].createdAt = now
    /\ \E w \in Callers :
          /\ held[w] \in DOMAIN jobs
          /\ held[w] # ret.id
          /\ jobs[held[w]].status = Processing
          /\ jobs[held[w]].type = ret.arg

\* a step of markJobAsFailed(held[w], error) by caller w
MarkFailedStep(w, error) ==
    /\ ret'.op = "markJobAsFailed"
    /\ held[w] # None
    /\ ret'.id = held[w]
    /\ markJobAsFailed(w, error)

\* C22: markJobAsFailed(id, e) sets status = Failed, failedAt = now and
\* error = e on the job with that id and changes no other job: after add,
\* getAndMarkJobAsProcessing and markJobAsFailed(id, "boom") the row of id
\* (what getJobById returns) has status Failed, error "boom" and a non-null
\* failedAt.
C22_MarkFailedSetsRow ==
    [][\A w \in Callers, error \in Errors :
          (MarkFailedStep(w, error) /\ held[w] \in DOMAIN jobs) =>
             /\ jobs' = [jobs EXCEPT ![held[w]] =
                            [@ EXCEPT !.status = Failed, !.failedAt = now,
                                      !.error = error]]
             /\ jobs'[held[w]].failedAt # NullTime]_vars

\* a job was added, claimed and failed with "boom" while another job of
\* the type stayed Pending
C22_Witness ==
    /\ ret.op = "markJobAsFailed"
    /\ ret.id \in DOMAIN jobs
    /\ jobs[ret.id].status = Failed
    /\ jobs[ret.id].error = "boom"
    /\ jobs[ret.id].failedAt = now
    /\ \E j \in DOMAIN jobs :
          /\ j # ret.id
          /\ jobs[j].type = jobs[ret.id].type
          /\ jobs[j].status = Pending

\* a step of markJobAsDone(held[w]) or markJobAsFailed(held[w], error) by
\* caller w
ReportBy(w) ==
    /\ ret'.op \in {"markJobAsDone", "markJobAsFailed"}
    /\ held[w] # None
    /\ ret'.id = held[w]
    /\ \/ markJobAsDone(w)
       \/ \E error \in Errors : markJobAsFailed(w, error)

\* C23: markJobAsDone(id) and markJobAsFailed(id, error) with an id that no
\* longer exists return normally and leave the store unchanged: no row is
\* created, no job is modified.
C23_ReportOnMissingIdIsNoOp ==
    [][\A w \in Callers :
          (ReportBy(w) /\ held[w] \notin DOMAIN jobs) =>
             /\ jobs' = jobs
             /\ nextId' = nextId
             /\ ret'.op # "throw"]_vars

\* a caller reported a job that a retention sweep had deleted, while
\* another job was in the table
C23_Witness ==
    /\ ret.op \in {"markJobAsDone", "markJobAsFailed"}
    /\ ret.id # None
    /\ ret.id \notin DOMAIN jobs
    /\ DOMAIN jobs # {}

\* a step of countJobs({ type, status }), either of them possibly absent
CountOptsStep(type, status) ==
    /\ ret'.op = "countJobs"
    /\ ret'.arg = <<type, status>>
    /\ countJobsOpts(type, status)

\* C24: countJobs(filter) returns the number of job rows matching the
\* filter: all rows when no filter is given, the rows of a type, the rows
\* of a status, or the rows of a type and a status.
C24_CountMatchesFilter ==
    [][\A type \in TypeFilters, status \in StatusFilters :
          CountOptsStep(type, status) =>
             ret'.id = Cardinality(
                {i \in DOMAIN jobs :
                    /\ type = Undefined \/ jobs[i].type = type
                    /\ status = NoStatus \/ jobs[i].status = status})]_vars

\* C25: a job's id, type, data and createdAt never change after the job is
\* created: every step leaves them as they were on every row it keeps.
C25_ImmutableFields ==
    [][\A i \in DOMAIN jobs :
          i \in DOMAIN jobs' =>
             /\ jobs'[i].type = jobs[i].type
             /\ jobs'[i].data = jobs[i].data
             /\ jobs'[i].createdAt = jobs[i].createdAt]_vars

\* a job created earlier was claimed, failed by one holder and completed
\* by another: its status, failedAt and error have all been written
C25_Witness ==
    /\ ret.op = "markJobAsDone"
    /\ ret.id \in DOMAIN jobs
    /\ jobs[ret.id].status = Done
    /\ jobs[ret.id].failedAt # NullTime
    /\ jobs[ret.id].error # NullError
    /\ jobs[ret.id].createdAt < now


\* a firing of the maintenance timer, whatever its steps raise
IntervalStep ==
    /\ ret'.op \in {"maintenance", "throw"}
    /\ \E failAt \in FailAt, kind \in FaultKinds : Interval(failAt, kind)

\* C26: every maintenance tick runs the three steps in order (requeue
\* timed-out jobs, remove old Done jobs, remove old Failed jobs), and an
\* error raised by one step does not keep the others from running: after
\* any tick the table is what the three statements make of it.
C26_TickRunsAllSteps ==
    [][IntervalStep =>
          jobs' = removeFailedJobsStmt(
                      removeDoneJobsStmt(
                          requeueTimedOutJobsStmt(jobs,
                                                  now - jobProcessingTimeout),
                          now - removeDoneJobsOlderThan),
                      now - removeFailedJobsOlderThan)]_vars

\* C27: once close() has returned no maintenance tick runs: the timer is
\* cleared, the connection is closed, and the table no longer changes.
C27_NoTickAfterClose ==
    /\ [](db = "closed" => ~maintenanceTimeout)
    /\ [][db = "closed" => ~IntervalStep /\ jobs' = jobs]_vars

\* the queue was closed while it held a timed-out Processing job and an old
\* Done job, both of which a tick would have touched
C27_Witness ==
    /\ ret.op = "close"
    /\ db = "closed"
    /\ \E i \in DOMAIN jobs :
          /\ jobs[i].status = Processing
          /\ jobs[i].createdAt < now - jobProcessingTimeout
    /\ \E i \in DOMAIN jobs :
          /\ jobs[i].status = Done
          /\ jobs[i].createdAt < now - removeDoneJobsOlderThan

\* C28: schedule(type, newCron) called while the ScheduledJob of that type
\* is Processing changes only its cronExpression: the status stays
\* Processing, nextRun is untouched and no row is created; the
\* markScheduledJobAsIdle(id, nextRun) that ends the cycle in flight then
\* stores the nextRun it was given and keeps the cron expression it finds.
C28_RescheduleWhileProcessing ==
    /\ [][\A p \in Callers :
             (/\ ScheduleReturns(p)
              /\ found[p].id \in DOMAIN scheduledJobs
              /\ scheduledJobs[found[p].id].status = ScheduledProcessing)
                =>
                LET id == found[p].id
                IN /\ ret'.id = id
                   /\ DOMAIN scheduledJobs' = DOMAIN scheduledJobs
                   /\ nextScheduledId' = nextScheduledId
                   /\ scheduledJobs'[id].status = ScheduledProcessing
                   /\ scheduledJobs'[id].nextRun = scheduledJobs[id].nextRun
                   /\ scheduledJobs'[id].cronExpression = found[p].cron
                   /\ scheduledJobs'[id].type = scheduledJobs[id].type
                   /\ scheduledJobs'[id].createdAt =
                         scheduledJobs[id].createdAt
                   /\ \A i \in DOMAIN scheduledJobs \ {id} :
                         scheduledJobs'[i] = scheduledJobs[i]]_vars
    /\ [][\A id \in DOMAIN scheduledJobs, nextRun \in NextRuns :
             (/\ MarkIdleStep(id, nextRun)
              /\ scheduledJobs[id].status = ScheduledProcessing)
                =>
                /\ scheduledJobs'[id].nextRun = nextRun
                /\ scheduledJobs'[id].status = ScheduledIdle
                /\ scheduledJobs'[id].cronExpression =
                      scheduledJobs[id].cronExpression]_vars

\* a definition that an earlier cycle had handed back with a next run was
\* claimed again, and schedule has given it another cron expression while
\* it is Processing
C28_Witness ==
    /\ ret.op = "schedule"
    /\ ret.id \in DOMAIN scheduledJobs
    /\ scheduledJobs[ret.id].status = ScheduledProcessing
    /\ scheduledJobs[ret.id].nextRun > 0
    /\ scheduledJobs[ret.id].cronExpression = "*/30 * * * *"

\* C29: a job added with add(type, data, { delay }) is not returned by
\* getAndMarkJobAsProcessing(type) before the delay has elapsed since the
\* add; a job added without a delay is claimable at once.
C29_DelayedNotClaimedEarly ==
    [][\A type \in Types :
          (ClaimStep(type) /\ ret'.id # None) =>
             notBefore[ret'.id] <= now]_vars

\* a step of addMany(type, dataList)
AddManyStep(type, dataList) ==
    /\ ret'.op = "addMany"
    /\ ret'.arg = type
    /\ addMany(type, dataList)

\* C30: job ids are unique and monotonic.  Every id in the table is below
\* the next id the store will assign, which never decreases; add and
\* addMany give their jobs ids that are not below it, hence greater than
\* every id assigned before, also when the jobs that had those ids have
\* been deleted by a retention sweep.
C30_IdsMonotonic ==
    /\ [](\A i \in DOMAIN jobs : i < nextId)
    /\ [][nextId' >= nextId]_vars
    /\ [][\A type \in Types, data \in Payloads :
             AddStep(type, data) =>
                /\ DOMAIN jobs' \ DOMAIN jobs = {ret'.id}
                /\ ret'.id >= nextId
                /\ ret'.id < nextId']_vars
    /\ [][\A type \in Types, dataList \in BatchLists :
             AddManyStep(type, dataList) =>
                LET ids == DOMAIN jobs' \ DOMAIN jobs
                IN /\ Cardinality(ids) = Len(dataList)
                   /\ DOMAIN jobs \subseteq DOMAIN jobs'
                   /\ \A i \in ids : i >= nextId /\ i < nextId']_vars

\* add has returned an id above 1 for the only job of the table: the job
\* that had the id before it was deleted by a retention sweep
C30_Witness ==
    /\ ret.op = "add"
    /\ ret.id > 1
    /\ DOMAIN jobs = {ret.id}

\* C31: at-least-once.  With a worker that keeps polling, handlers that
\* terminate and a maintenance timer that keeps firing, every job that is
\* added eventually reaches Done or Failed, also when a worker dies after
\* claiming it; and it reaches Done or Failed only in the hands of a
\* worker that a claim returned it to, so that it is eventually returned
\* by a claim.
C31_AtLeastOnce ==
    /\ [][\A i \in DOMAIN jobs :
             (/\ jobs[i].status \in {Pending, Processing}
              /\ i \in DOMAIN jobs'
              /\ jobs'[i].status \in {Done, Failed})
                => \E w \in Callers : held[w] = i /\ held'[w] = None]_vars
    /\ \A i \in 1..MaxJobs :
          (i \in DOMAIN jobs) ~>
             (i \in DOMAIN jobs /\ jobs[i].status \in {Done, Failed})

\* the worker that a claim returned a job to has died: the job is
\* Processing and no worker holds it
C31_Witness ==
    /\ ret.op = "getAndMarkJobAsProcessing"
    /\ ret.id \in DOMAIN jobs
    /\ jobs[ret.id].status = Processing
    /\ \A w \in Callers : held[w] # ret.id

\* C32: the scheduler cycle.  A due instant of a definition is the nextRun
\* a claim found stored in it.  Whichever worker drives the cycle, no two
\* jobs are added for one due instant of a definition and no two workers
\* drive one definition at a time; a definition is handed back only after
\* the job of its due instant was added, with the definition's type; and a
\* definition that is Idle and due is eventually given its job.
C32_OneJobPerDueInstant ==
    /\ [](\A x \in fired, y \in fired :
             (x[1] = y[1] /\ x[2] = y[2]) => x = y)
    /\ [](\A v \in Callers, w \in Callers :
             (v # w /\ cycle[v] # NotDriving) => cycle[v].id # cycle[w].id)
    /\ [][\A w \in Callers :
             (ret'.op = "markScheduledJobAsIdle" /\ CycleIdle(w)) =>
                \E x \in fired :
                   /\ x[1] = cycle[w].id
                   /\ x[2] = cycle[w].due
                   /\ x[3] \in DOMAIN jobs
                   /\ jobs[x[3]].type = scheduledJobs[cycle[w].id].type
                   /\ jobs[x[3]].status = Pending]_vars
    /\ \A id \in 1..Cardinality(WorkerTypes), due \in 0..MaxTime :
          (/\ id \in DOMAIN scheduledJobs
           /\ scheduledJobs[id].status = ScheduledIdle
           /\ scheduledJobs[id].nextRun = due
           /\ due <= now)
             ~> (\E x \in fired : x[1] = id /\ x[2] = due)

\* a definition has gone through the cycle twice and has a job for each of
\* its two due instants
C32_Witness ==
    /\ ret.op = "markScheduledJobAsIdle"
    /\ Cardinality(fired) = 2
    /\ \E x \in fired, y \in fired : x[1] = y[1] /\ x[2] < y[2]
    /\ Cardinality(DOMAIN jobs) = 2

\* C33: when the handler of a worker throws for the job it claimed, the
\* job, if its row still exists, has status Failed, failedAt = now and the
\* thrown message as its error, onFailed is called with the job and the
\* message, and the worker is free to poll again; when the handler returns
\* the job has status Done, onCompleted is called with it, and the worker
\* is free to poll again.
C33_HandlerOutcomeRecorded ==
    /\ [][\A w \in Callers, message \in Errors :
             (ret'.op = "markJobAsFailed" /\ WorkerFail(w, message)) =>
                /\ held[w] \in DOMAIN jobs =>
                      /\ jobs'[held[w]].status = Failed
                      /\ jobs'[held[w]].failedAt = now
                      /\ jobs'[held[w]].failedAt # NullTime
                      /\ jobs'[held[w]].error = message
                /\ callback' = [name |-> "onFailed", id |-> held[w],
                                error |-> message]
                /\ held'[w] = None]_vars
    /\ [][\A w \in Callers :
             (ret'.op = "markJobAsDone" /\ WorkerSucceed(w)) =>
                /\ held[w] \in DOMAIN jobs =>
                      jobs'[held[w]].status = Done
                /\ callback'.name = "onCompleted"
                /\ callback'.id = held[w]
                /\ held'[w] = None]_vars

\* a handler has thrown: the job is Failed with the message and the
\* instant, and onFailed was called with them, while the other worker
\* holds a job whose handler is still running
C33_Witness ==
    /\ ret.op = "markJobAsFailed"
    /\ callback.name = "onFailed"
    /\ callback.id = ret.id
    /\ ret.id \in DOMAIN jobs
    /\ jobs[ret.id].status = Failed
    /\ jobs[ret.id].failedAt = now
    /\ jobs[ret.id].error = callback.error
    /\ \E w \in Callers : held[w] \notin {None, ret.id}

\* a claim of the given type by a caller of the store
StoreClaimStep(type) ==
    /\ ret'.op = "getAndMarkJobAsProcessing"
    /\ ret'.arg = type
    /\ \E w \in StoreCallers : getAndMarkJobAsProcessing(w, type)

\* C34: a getAndMarkJobAsProcessing(type) made when no job of that type is
\* Pending has no side effect: every job and every scheduled job is the
\* same after the call as before, and no row is added or removed.
C34_ClaimWithoutPendingNoEffect ==
    [][\A type \in Types :
          (/\ StoreClaimStep(type)
           /\ \A i \in DOMAIN jobs :
                 jobs[i].type = type => jobs[i].status # Pending) =>
             /\ jobs' = jobs
             /\ nextId' = nextId
             /\ scheduledJobs' = scheduledJobs
             /\ nextScheduledId' = nextScheduledId]_vars

\* a claim has returned nothing: the jobs of its type are Done or Failed,
\* a job of the other type is Pending and the definition is Processing
C34_Witness ==
    /\ ret.op = "getAndMarkJobAsProcessing"
    /\ ret.id = None
    /\ \E i \in DOMAIN jobs :
          jobs[i].type = ret.arg /\ jobs[i].status \in {Done, Failed}
    /\ \E i \in DOMAIN jobs :
          jobs[i].type # ret.arg /\ jobs[i].status = Pending
    /\ \E i \in DOMAIN scheduledJobs :
          scheduledJobs[i].status = ScheduledProcessing

\* markJobAsDone(i) by a caller holding job i
DoneStep(i) ==
    /\ ret'.op = "markJobAsDone"
    /\ ret'.id = i
    /\ \E w \in Callers : held[w] = i /\ markJobAsDone(w)

\* C35: markJobAsDone(id) sets the job's status to Done whatever its
\* status was (Pending, Processing, Done or Failed) and changes nothing
\* else; it is idempotent: the statement run again on the resulting table
\* leaves it as it is, and a call on a job that is Done already changes
\* nothing.
C35_MarkDoneIdempotent ==
    [][\A i \in DOMAIN jobs :
          DoneStep(i) =>
             /\ jobs' = [jobs EXCEPT ![i].status = Done]
             /\ updateJobStatusStmt(jobs', Done, i) = jobs'
             /\ jobs[i].status = Done => jobs' = jobs]_vars

\* markJobAsDone has made a job Done at an instant after its creation,
\* and another caller that holds the same job can call it again
C35_Witness ==
    /\ ret.op = "markJobAsDone"
    /\ ret.id \in DOMAIN jobs
    /\ jobs[ret.id].status = Done
    /\ jobs[ret.id].createdAt < now
    /\ \E w \in Callers : held[w] = ret.id

C37_ProcessingUntilMarkedIdle ==
    /\ [][\A i \in DOMAIN scheduledJobs :
             scheduledJobs[i].status = ScheduledProcessing =>
                /\ i \in DOMAIN scheduledJobs'
                /\ scheduledJobs'[i].status # ScheduledProcessing =>
                      /\ ret'.op = "markScheduledJobAsIdle"
                      /\ ret'.id = i
                      /\ markScheduledJobAsIdle(i, ret'.arg)]_vars
    /\ [][\A i \in DOMAIN scheduledJobs :
             scheduledJobs'[i].status # scheduledJobs[i].status =>
                ret'.op \in {"getAndMarkScheduledJobAsProcessing",
                             "markScheduledJobAsIdle"}]_vars
    /\ [][(ClaimScheduledStep /\ ret'.id # None) =>
             scheduledJobs[ret'.id].status = ScheduledIdle]_vars

\* the reaper has just requeued a timed-out job while a definition, as old
\* as that job and long due, is still Processing
C37_Witness ==
    /\ ret.op = "requeueTimedOutJobs"
    /\ ret.n.requeued > 0
    /\ \E i \in DOMAIN scheduledJobs :
          /\ scheduledJobs[i].status = ScheduledProcessing
          /\ scheduledJobs[i].createdAt < now - jobProcessingTimeout
          /\ scheduledJobs[i].nextRun < now

\* C38: a requeued job keeps its createdAt and is back at the front of its
\* type's queue: requeueTimedOutJobs leaves createdAt of the jobs it moves
\* to Pending as it was, and while a requeued job J is Pending no claim
\* transitions a Pending job of J's type that was created later than J.
C38_RequeuedBackToFront ==
    /\ [][\A j \in DOMAIN jobs :
             (jobs[j].status = Processing /\ j \in DOMAIN jobs'
                /\ jobs'[j].status = Pending) =>
                /\ ret'.op = "requeueTimedOutJobs"
                /\ jobs'[j].createdAt = jobs[j].createdAt]_vars
    /\ [][\A type \in Types : \A j \in leased, k \in DOMAIN jobs :
             (/\ ClaimStep(type)
              /\ j \in DOMAIN jobs
              /\ jobs[j].status = Pending
              /\ jobs[j].type = type
              /\ jobs[k].type = type
              /\ jobs[k].status = Pending
              /\ jobs[k].createdAt > jobs[j].createdAt) =>
                /\ jobs'[k] = jobs[k]
                /\ ret'.id # k
                /\ \E i \in DOMAIN jobs :
                      /\ jobs[i].status = Pending
                      /\ jobs[i].type = type
                      /\ jobs[i].createdAt <= jobs[j].createdAt
                      /\ jobs'[i].status = Processing]_vars

\* the last claim returned a job another caller had claimed before it was
\* requeued, while the only other job, created later, is still Pending
C38_Witness ==
    /\ ret.op = "getAndMarkJobAsProcessing"
    /\ DOMAIN jobs = {1, 2}
    /\ ret.id = 1
    /\ jobs[1].status = Processing
    /\ jobs[2].status = Pending
    /\ jobs[2].type = jobs[1].type
    /\ jobs[2].createdAt > jobs[1].createdAt
    /\ \E w, v \in Callers : w # v /\ held[w] = 1 /\ held[v] = 1

\* C39: a job that is Done or Failed is never returned by
\* getAndMarkJobAsProcessing, and neither a claim nor requeueTimedOutJobs
\* moves it to Processing or Pending: both leave its row as it was.
C39_TerminalNeverClaimedNorRequeued ==
    [][\A i \in DOMAIN jobs :
          jobs[i].status \in {Done, Failed} =>
             /\ \A type \in Types :
                   StoreClaimStep(type) =>
                      /\ ret'.id # i
                      /\ i \in DOMAIN jobs'
                      /\ jobs'[i] = jobs[i]
             /\ ret'.op = "requeueTimedOutJobs" =>
                   (i \in DOMAIN jobs' /\ jobs'[i] = jobs[i])]_vars

\* a claim found nothing to return although a job of its type, old enough
\* to be past the processing timeout, is in the table as Done or Failed
C39_Witness ==
    /\ ret.op = "getAndMarkJobAsProcessing"
    /\ ret.id = None
    /\ \E i \in DOMAIN jobs :
          /\ jobs[i].type = ret.arg
          /\ jobs[i].status \in {Done, Failed}
          /\ jobs[i].createdAt < now - jobProcessingTimeout

\* C40: the number of job rows, as countJobs() returns it, changes only
\* through add and addMany, which increase it, and through removeDoneJobs
\* and removeFailedJobs, which decrease it; a claim, a report, a requeue and
\* every operation on scheduled jobs keep every job row in the table, and
\* a claim of one type leaves every job of another type as it was.
C40_RowCountFrame ==
    [][/\ countJobsStmt(jobs') > countJobsStmt(jobs) =>
             /\ ret'.op \in {"add", "addMany"}
             /\ DOMAIN jobs \subseteq DOMAIN jobs'
       /\ countJobsStmt(jobs') < countJobsStmt(jobs) =>
             /\ ret'.op \in {"removeDoneJobs", "removeFailedJobs"}
             /\ DOMAIN jobs' \subseteq DOMAIN jobs
       /\ ret'.op \in {"getAndMarkJobAsProcessing", "markJobAsDone",
                       "markJobAsFailed", "requeueTimedOutJobs", "schedule",
                       "getAndMarkScheduledJobAsProcessing",
                       "markScheduledJobAsIdle"} =>
             /\ DOMAIN jobs' = DOMAIN jobs
             /\ countJobsStmt(jobs') = countJobsStmt(jobs)
       /\ \A type \in Types :
             StoreClaimStep(type) =>
                \A i \in DOMAIN jobs :
                   jobs[i].type # type => jobs'[i] = jobs[i]]_vars

\* a claim has just taken a job of its type although a job of the other
\* type, inserted before it, is still Pending
C40_Witness ==
    /\ ret.op = "getAndMarkJobAsProcessing"
    /\ ret.id \in DOMAIN jobs
    /\ jobs[ret.id].type = ret.arg
    /\ jobs[ret.id].status = Processing
    /\ \E k \in DOMAIN jobs :
          /\ k < ret.id
          /\ jobs[k].type # ret.arg
          /\ jobs[k].status = Pending

=============================================================================
